---- MODULE Spec2Model ----
(***************************************************************************)
(* Model of the verse-normalisation core of BibleOrgSys' SwordResources.py *)
(* (replaceFixedPairs, the OSIS / GBF / THML verse filters, the import     *)
(* wrappers and SwordInterface.loadBooks).                                 *)
(*                                                                         *)
(* Text is modelled as Python models it: a sequence of characters.  Every  *)
(* string of the source is a tuple of one-character strings, indexed from  *)
(* 1 in TLA+ and from 0 in Python; operators that return Python indexes    *)
(* (Find, insertIndex, ix) keep the 0-based value, with -1 for "not        *)
(* found".                                                                 *)
(***************************************************************************)
EXTENDS Integers, Sequences, FiniteSets, TLC

VARIABLES
    replacementList,  \* replaceFixedPairs: the list of 4-tuples being applied
    inputLine,        \* the text argument as passed in (verseLine, osisVerseString, ...)
    verseLine,        \* replaceFixedPairs: the local verseLine
    pairIx,           \* replaceFixedPairs: position of the for loop in replacementList
    ix,               \* replaceFixedPairs: the local ix (0-based, -1 = not found)
    rfpPc,            \* replaceFixedPairs: "open" (at the while test), "done", "raised"
    log,              \* logging.error records emitted so far
    call,             \* the function called on inputLine
    shape,            \* how inputLine was built: "tokens", "wellformed", "wrapped", "notes",
                      \* "elements", "verses"
    argC,             \* the argument C of the call
    argV,             \* the argument V of the call
    globalDebugFlag,  \* BibleOrgSysGlobals.debugFlag
    result,           \* outcome of the call: [line, err, log], NoResult before it
    again,            \* outcome of the same call on the text it returned, NoResult before it
    verses,           \* a run of verses of one module, filtered one after the other
    outputs,          \* the outcome of the filter for each verse filtered so far
    contentsDict,     \* filterGBFVerseLine: the local contentsDict as the last call left it
    namesBound,       \* whether ENC_*, FMT_* and BibleBook are bound in the module globals
    markupCode,       \* loadBooks: module.getMarkup()
    module,           \* loadBooks: the module's entries, [key, text], by index
    index,            \* loadBooks: the for loop index
    currentBBB,       \* loadBooks: currentBBB ("None" before the first book)
    currentC,         \* loadBooks: currentC
    haveText,         \* loadBooks: haveText
    thisBook,         \* loadBooks: the calls made on thisBook, in order
    bookCount,        \* loadBooks: bookCount
    saved,            \* loadBooks: the saveBook calls made, [on, BBB, book]
    handed,           \* loadBooks: indexes handed to an import function, in order
    loadPc,           \* loadBooks: "start", "loop", "returned", "raised"
    loadErr,          \* loadBooks: the exception that left loadBooks, [index, err]
    usxTree,          \* USXXMLBibleBook.load: the elements of self.tree, in document order
    usx,              \* USXXMLBibleBook.load: its locals and what it did to the book
    usfm              \* USFMMarkers: the catalog, the dictionaries imported from it, a query

rfpVars == <<replacementList, inputLine, verseLine, pairIx, ix, rfpPc, log>>
filterVars == <<call, shape, argC, argV, globalDebugFlag, result, again>>
verseVars == <<verses, outputs, contentsDict>>
loadVars == <<namesBound, markupCode, module, index, currentBBB, currentC, haveText, thisBook,
              bookCount, saved, handed, loadPc, loadErr>>
usxVars == <<usxTree, usx, usfm>>
vars == <<rfpVars, filterVars, loadVars, verseVars, usxVars>>

NoResult == [err |-> "pending"]
NoError == [index |-> -1, err |-> "none"]

\* the values of the variables a specification does not use
IdlePairs ==
    /\ verseLine = <<>> /\ pairIx = 0 /\ ix = -1 /\ rfpPc = "idle" /\ log = <<>>

IdleFilter ==
    /\ call = "none" /\ shape = "none" /\ argC = <<>> /\ argV = <<>>
    /\ result = NoResult /\ again = NoResult

IdleVerses ==
    /\ verses = <<>> /\ outputs = <<>> /\ contentsDict = <<>>

IdleUSX ==
    /\ usxTree = <<>> /\ usx = [pc |-> "idle"] /\ usfm = [pc |-> "idle"]

IdleLoad ==
    /\ namesBound = TRUE /\ markupCode = "none" /\ module = <<>> /\ index = 0
    /\ currentBBB = "None" /\ currentC = <<>> /\ haveText = FALSE /\ thisBook = <<>>
    /\ bookCount = 0 /\ saved = <<>> /\ handed = <<>> /\ loadPc = "idle" /\ loadErr = NoError

-----------------------------------------------------------------------------
(* Python str primitives on character sequences *)

\* s[i:] startswith t, i 0-based
StartsAt(s, t, i) ==
    /\ i >= 0
    /\ i + Len(t) <= Len(s)
    /\ \A k \in 1..Len(t) : s[i + k] = t[k]

MinOf(S) == CHOOSE m \in S : \A n \in S : m <= n

\* s.find( t, from ): lowest 0-based index >= from where t occurs, else -1
Find(s, t, from) ==
    LET cand == { i \in from..(Len(s) - Len(t)) : StartsAt(s, t, i) }
    IN  IF cand = {} THEN -1 ELSE MinOf(cand)

\* t in s
Contains(s, t) == Find(s, t, 0) # -1

\* s[a:b] with 0 <= a, b (Python slice, 0-based, b exclusive)
Slice(s, a, b) == SubSeq(s, a + 1, IF b > Len(s) THEN Len(s) ELSE b)

\* s[a:]
SliceFrom(s, a) == SubSeq(s, a + 1, Len(s))

\* s.replace( old, new, 1 ): only the first occurrence, searched from index 0
ReplaceFirst(s, old, new) ==
    LET i == Find(s, old, 0)
    IN  IF i = -1 THEN s
        ELSE Slice(s, 0, i) \o new \o SliceFrom(s, i + Len(old))

\* s.replace( old, new ): every non-overlapping occurrence, left to right
RECURSIVE ReplaceAllFrom(_, _, _, _)
ReplaceAllFrom(s, old, new, from) ==
    LET i == Find(s, old, from)
    IN  IF i = -1 THEN s
        ELSE ReplaceAllFrom(Slice(s, 0, i) \o new \o SliceFrom(s, i + Len(old)),
                            old, new, i + Len(new))

ReplaceAll(s, old, new) == ReplaceAllFrom(s, old, new, 0)

HasAngle(s) == \E k \in 1..Len(s) : s[k] \in {"<", ">"}

-----------------------------------------------------------------------------
(* The 4-tuples (openCode, newOpenCode, closeCode, newCloseCode) *)

\* ('<divineName>','\\nd ','</divineName>','\\nd*')
divineNamePair == << <<"<","d","i","v","i","n","e","N","a","m","e",">">>, <<"\\","n","d"," ">>, <<"<","/","d","i","v","i","n","e","N","a","m","e",">">>, <<"\\","n","d","*">> >>
\* ('<seg><divineName>','\\nd ','</divineName></seg>','\\nd*')
segDivineNamePair == << <<"<","s","e","g",">","<","d","i","v","i","n","e","N","a","m","e",">">>, <<"\\","n","d"," ">>, <<"<","/","d","i","v","i","n","e","N","a","m","e",">","<","/","s","e","g",">">>, <<"\\","n","d","*">> >>
\* ('<seg>','','</seg>','')
segPair == << <<"<","s","e","g",">">>, <<>>, <<"<","/","s","e","g",">">>, <<>> >>
\* ('<i>','\\it ','</i>','\\it*')
iPair == << <<"<","i",">">>, <<"\\","i","t"," ">>, <<"<","/","i",">">>, <<"\\","i","t","*">> >>

\* the same three pairs with the single '<FO>' pair ahead of the double one
GBFReplacementListSingleFirst ==
    << << <<"<","F","I",">">>, <<"\\","i","t"," ">>, <<"<","F","i",">">>, <<"\\","i","t","*">> >>,
       << <<"<","F","O",">">>, <<"\\","e","m"," ">>, <<"<","F","o",">">>, <<"\\","e","m","*">> >>,
       << <<"<","F","O",">","<","F","O",">">>, <<"\\","N","L","*","*","\\","d"," ">>, <<"<","F","o",">","<","F","o",">">>, <<"\\","N","L","*","*">> >> >>

\* filterGBFVerseLine's replacementList
GBFReplacementList ==
    << << <<"<","F","I",">">>, <<"\\","i","t"," ">>, <<"<","F","i",">">>, <<"\\","i","t","*">> >>,
       << <<"<","F","O",">","<","F","O",">">>, <<"\\","N","L","*","*","\\","d"," ">>, <<"<","F","o",">","<","F","o",">">>, <<"\\","N","L","*","*">> >>,
       << <<"<","F","O",">">>, <<"\\","e","m"," ">>, <<"<","F","o",">">>, <<"\\","e","m","*">> >> >>

-----------------------------------------------------------------------------
(* replaceFixedPairs *)

MissingClose(pair) == [kind |-> "Missing", closeCode |-> pair[3], openCode |-> pair[1]]
UnexpectedClose(pair) == [kind |-> "Unexpected", closeCode |-> pair[3], openCode |-> pair[1]]

\* a pass that never looks for the close code: it appends newCloseCode every time
OpenIterationAppends(st, pair) ==
    LET l1 == ReplaceFirst(st.line, pair[1], pair[2])
    IN  [line |-> l1 \o pair[4],
         ix   |-> Find(l1 \o pair[4], pair[1], st.ix),
         log  |-> Append(st.log, MissingClose(pair))]

\* One pass through the body of "while ix != -1": the state is [line, ix, log].
OpenIteration(st, pair) ==
    LET l1 == ReplaceFirst(st.line, pair[1], pair[2])
        ixEnd == Find(l1, pair[3], st.ix)
        l2 == IF ixEnd = -1 THEN l1 \o pair[4] ELSE ReplaceFirst(l1, pair[3], pair[4])
    IN  [line |-> l2,
         ix   |-> Find(l2, pair[1], st.ix),
         log  |-> IF ixEnd = -1 THEN Append(st.log, MissingClose(pair)) ELSE st.log]

\* The scan for the insertion point: the index, or -1 when verseLine[insertIndex]
\* is read past the end of the string (IndexError).
\* lines 129-131: from j on, the first index that is the last of the line or
\* holds a blank; j itself when it is already at or past the last index
InnerScan(line, j) ==
    IF j >= Len(line) - 1 THEN j
    ELSE MinOf({ k \in j..(Len(line) - 1) : k = Len(line) - 1 \/ line[k + 1] = " " })

RECURSIVE InsertIndexFrom(_, _)
InsertIndexFrom(line, i) ==
    IF i >= Len(line) THEN -1
    ELSE IF line[i + 1] # "\\" THEN i
    ELSE InsertIndexFrom(line, InnerScan(line, i + 1))

InsertIndex(line) == InsertIndexFrom(line, 0)

\* "if verseLine.find( closeCode ) != -1": the state is [line, log, err].
BareCloseRepair(line, lg, pair) ==
    IF Find(line, pair[3], 0) = -1 THEN [line |-> line, log |-> lg, err |-> "none"]
    ELSE LET l1 == ReplaceFirst(line, pair[3], pair[4])
             lg1 == Append(lg, UnexpectedClose(pair))
             at == InsertIndex(l1)
         IN  IF at = -1 THEN [line |-> l1, log |-> lg1, err |-> "IndexError"]
             ELSE [line |-> Slice(l1, 0, at) \o <<" ">> \o pair[2] \o SliceFrom(l1, at),
                   log |-> lg1, err |-> "none"]

RECURSIVE OpenLoop(_, _)
OpenLoop(st, pair) == IF st.ix = -1 THEN st ELSE OpenLoop(OpenIteration(st, pair), pair)

\* One turn of "for openCode,newOpenCode,closeCode,newCloseCode in replacementList"
ApplyPair(line, lg, pair) ==
    LET o == OpenLoop([line |-> line, ix |-> Find(line, pair[1], 0), log |-> lg], pair)
    IN  BareCloseRepair(o.line, o.log, pair)

\* The whole function: [line, log, err]; err = "IndexError" when it raises.
\* The for loop from the k-th pair on.  A pair with neither token in the line
\* changes nothing (the tests of lines 110 and 121 fail), so the loop goes
\* straight to the next pair that has one.
RECURSIVE ReplaceFrom(_, _, _, _)
ReplaceFrom(list, k, line, lg) ==
    LET acting == { j \in k..Len(list) :
                       Contains(line, list[j][1]) \/ Contains(line, list[j][3]) }
        j0 == MinOf(acting)
        r == ApplyPair(line, lg, list[j0])
    IN  IF acting = {} THEN [line |-> line, log |-> lg, err |-> "none"]
        ELSE IF r.err # "none" THEN r
        ELSE ReplaceFrom(list, j0 + 1, r.line, r.log)

replaceFixedPairs(list, line) == ReplaceFrom(list, 1, line, <<>>)

-----------------------------------------------------------------------------
(* Module-level flags *)

\* debuggingThisModule = False
debuggingThisModule == FALSE

-----------------------------------------------------------------------------
(* Regular expressions of filterGBFVerseLine.  A match is a record with the
   0-based start and end (exclusive) and the groups; NoMatch has start -1. *)

NoMatch == [start |-> -1]
IsMatch(m) == m.start # -1

IsDigit(c) == c \in {"0", "1", "2", "3", "4", "5", "6", "7", "8", "9"}
DigitAt(s, i) == i >= 0 /\ i < Len(s) /\ IsDigit(s[i + 1])
CharAt(s, i, c) == i >= 0 /\ i < Len(s) /\ s[i + 1] = c

\* str.rstrip(): trailing whitespace removed
RECURSIVE RStrip(_)
RStrip(s) ==
    IF s # <<>> /\ s[Len(s)] \in {" ", "\n", "\t"} THEN RStrip(SubSeq(s, 1, Len(s) - 1)) ELSE s

\* '.+?' followed by the literal lit, the '.+?' starting at 0-based from: the
\* lowest e >= from + 1 with lit at e and no newline in s[from:e], else -1
LazyUntil(s, from, lit) ==
    LET cand == { e \in (from + 1)..(Len(s) - Len(lit)) :
                     /\ StartsAt(s, lit, e)
                     /\ \A k \in from..(e - 1) : s[k + 1] # "\n" }
    IN  IF cand = {} THEN -1 ELSE MinOf(cand)

\* '<RF>(\d{1,2}?)<Rf>' : the footnote caller
Match1At(s, p) ==
    IF ~StartsAt(s, <<"<","R","F",">">>, p) THEN NoMatch
    ELSE IF DigitAt(s, p + 4) /\ StartsAt(s, <<"<","R","f",">">>, p + 5)
        THEN [start |-> p, end |-> p + 9, g1 |-> Slice(s, p + 4, p + 5)]
    ELSE IF DigitAt(s, p + 4) /\ DigitAt(s, p + 5) /\ StartsAt(s, <<"<","R","f",">">>, p + 6)
        THEN [start |-> p, end |-> p + 10, g1 |-> Slice(s, p + 4, p + 6)]
    ELSE NoMatch

Match1(s) ==
    LET cand == { p \in 0..Len(s) : IsMatch(Match1At(s, p)) }
    IN  IF cand = {} THEN NoMatch ELSE Match1At(s, MinOf(cand))

\* '<RF>(\d{1,2}?)\)? (.+?)<Rf>' with n digits: the numbered callee
Match2Digits(s, p, n) ==
    LET afterDigits == p + 4 + n
        sp == IF CharAt(s, afterDigits, ")") THEN afterDigits + 1 ELSE afterDigits
        e == IF CharAt(s, sp, " ") THEN LazyUntil(s, sp + 1, <<"<","R","f",">">>) ELSE -1
    IN  IF (\A k \in 0..(n - 1) : DigitAt(s, p + 4 + k)) /\ e # -1
           THEN [start |-> p, end |-> e + 4, g1 |-> Slice(s, p + 4, afterDigits),
                 g2 |-> Slice(s, sp + 1, e)]
        ELSE NoMatch

Match2At(s, p) ==
    IF ~StartsAt(s, <<"<","R","F",">">>, p) THEN NoMatch
    ELSE IF IsMatch(Match2Digits(s, p, 1)) THEN Match2Digits(s, p, 1)
    ELSE Match2Digits(s, p, 2)

Match2(s) ==
    LET cand == { p \in 0..Len(s) : IsMatch(Match2At(s, p)) }
    IN  IF cand = {} THEN NoMatch ELSE Match2At(s, MinOf(cand))

\* '<RF>([^\d].+?)<Rf>' : a callee without a number
Match3At(s, p) ==
    LET e == LazyUntil(s, p + 5, <<"<","R","f",">">>)
    IN  IF StartsAt(s, <<"<","R","F",">">>, p) /\ p + 4 < Len(s) /\ ~DigitAt(s, p + 4) /\ e # -1
           THEN [start |-> p, end |-> e + 4, g1 |-> Slice(s, p + 4, e)]
        ELSE NoMatch

Match3(s) ==
    LET cand == { p \in 0..Len(s) : IsMatch(Match3At(s, p)) }
    IN  IF cand = {} THEN NoMatch ELSE Match3At(s, MinOf(cand))

\* '<RF>(.+?)<Rf>' : any footnote left over
Match4At(s, p) ==
    LET e == LazyUntil(s, p + 4, <<"<","R","f",">">>)
    IN  IF StartsAt(s, <<"<","R","F",">">>, p) /\ e # -1
           THEN [start |-> p, end |-> e + 4, g1 |-> Slice(s, p + 4, e)]
        ELSE NoMatch

Match4(s) ==
    LET cand == { p \in 0..Len(s) : IsMatch(Match4At(s, p)) }
    IN  IF cand = {} THEN NoMatch ELSE Match4At(s, MinOf(cand))

\* '(\d{1,2})\) ' at p, the digits greedy: the number of digits matched, else 0
NumberedAt(s, p) ==
    IF DigitAt(s, p) /\ DigitAt(s, p + 1) /\ StartsAt(s, <<")"," ">>, p + 2) THEN 2
    ELSE IF DigitAt(s, p) /\ StartsAt(s, <<")"," ">>, p + 1) THEN 1
    ELSE 0

\* '(\d{1,2})\) '
Match9At(s, p) ==
    LET n == NumberedAt(s, p)
    IN  IF n = 0 THEN NoMatch
        ELSE [start |-> p, end |-> p + n + 2, g1 |-> Slice(s, p, p + n)]

Match9(s) ==
    LET cand == { p \in 0..Len(s) : IsMatch(Match9At(s, p)) }
    IN  IF cand = {} THEN NoMatch ELSE Match9At(s, MinOf(cand))

\* '(\d{1,2})\) (.*?)(\d{1,2})\) '
Match8At(s, p) ==
    LET n == NumberedAt(s, p)
        from == p + n + 2
        cand == { q \in from..Len(s) :
                     /\ NumberedAt(s, q) # 0
                     /\ \A k \in from..(q - 1) : s[k + 1] # "\n" }
        q0 == MinOf(cand)
        m == NumberedAt(s, q0)
    IN  IF n = 0 \/ cand = {} THEN NoMatch
        ELSE [start |-> p, end |-> q0 + m + 2, g1 |-> Slice(s, p, p + n),
              g2 |-> Slice(s, from, q0), g3 |-> Slice(s, q0, q0 + m)]

Match8(s) ==
    LET cand == { p \in 0..Len(s) : IsMatch(Match8At(s, p)) }
    IN  IF cand = {} THEN NoMatch ELSE Match8At(s, MinOf(cand))

-----------------------------------------------------------------------------
(* filterGBFVerseLine *)

\* '\\f + \\ft {}\\f*'.format( contents )
FootnoteMarker(contents) == <<"\\","f"," ","+"," ","\\","f","t"," ">> \o contents \o <<"\\","f","*">>

\* what the last call of filterGBFVerseLine left in contentsDict
KeptDict == contentsDict

\* contentsDict: a function from caller ids to contents
EmptyDict == [k \in {} |-> <<>>]
DictPut(d, k, v) == (k :> v) @@ d

\* "while replacement2:" (lines 822-841): the state is [rep, dict, err]
RECURSIVE SplitCallees(_, _)
SplitCallees(rep, dict) ==
    IF rep = <<>> THEN [rep |-> rep, dict |-> dict, err |-> "none"]
    ELSE LET match8 == Match8(rep)
             match9 == Match9(rep)
         IN  IF IsMatch(match8) /\ ~(IsMatch(match9) /\ match9.g1 = match8.g1)
                THEN [rep |-> rep, dict |-> dict, err |-> "AssertionError"]
             ELSE IF ~IsMatch(match9) THEN [rep |-> rep, dict |-> dict, err |-> "none"]
             ELSE IF IsMatch(match8)
                THEN SplitCallees(SliceFrom(rep, match8.end - 2 - Len(match8.g3)),
                                  DictPut(dict, match9.g1, match8.g2))
             ELSE [rep |-> <<>>,
                   dict |-> DictPut(dict, match9.g1, SliceFrom(rep, Len(match9.g1) + 2)),
                   err |-> "none"]

\* "Scan for footnote callers and callees" (lines 800-870):
\* the state is [line, dict, lastCalled, err], lastCalled a boolean (None or set)
RECURSIVE CallerLoop(_, _, _)

\* lines 842-848: split is the outcome of the loop of lines 822-841
NumberedCallee(line, dict, match1, match2, split) ==
    IF split.err # "none" THEN [line |-> line, dict |-> dict, err |-> split.err]
    ELSE IF match1.g1 \notin DOMAIN split.dict THEN [line |-> line, dict |-> dict, err |-> "KeyError"]
    ELSE IF ~(match2.start > match1.start /\ match2.end > match1.end /\ match2.start > match1.end)
        THEN [line |-> line, dict |-> dict, err |-> "AssertionError"]
    ELSE CallerLoop(Slice(line, 0, match1.start) \o FootnoteMarker(split.dict[match1.g1])
                        \o Slice(line, match1.end, match2.start)
                        \o split.rep \o SliceFrom(line, match2.end),
                    split.dict, TRUE)

\* lines 849-865: "We have a callee without a number"
UnnumberedCallee(line, dict, match1, match3, contents) ==
    IF match1.g1 # <<"1">> THEN [line |-> line, dict |-> dict, err |-> "AssertionError"]
    ELSE IF Contains(contents, <<" ","2",")"," ">>) THEN [line |-> line, dict |-> dict, err |-> "NameError"]
    ELSE IF ~(match3.start > match1.start /\ match3.end > match1.end /\ match3.start > match1.end)
        THEN [line |-> line, dict |-> dict, err |-> "AssertionError"]
    ELSE CallerLoop(Slice(line, 0, match1.start) \o FootnoteMarker(contents)
                        \o Slice(line, match1.end, match3.start) \o SliceFrom(line, match3.end),
                    DictPut(dict, match1.g1, contents), TRUE)

\* one pass of the loop, the searches of lines 803-808 done (match3 is read
\* only where match2 found nothing)
CallerPass(line, dict, lastCalled, match1, match2, match3) ==
    IF ~IsMatch(match1) THEN [line |-> line, dict |-> dict, err |-> "none"]
    ELSE IF ~(IsMatch(match2) \/ lastCalled \/ IsMatch(match3))
        THEN [line |-> line, dict |-> dict, err |-> "AssertionError"]
    ELSE IF match1.g1 \in DOMAIN dict
        THEN CallerLoop(Slice(line, 0, match1.start) \o FootnoteMarker(dict[match1.g1])
                            \o SliceFrom(line, match1.end),
                        dict, TRUE)
    ELSE IF IsMatch(match2)
        THEN NumberedCallee(line, dict, match1, match2,
                            SplitCallees(match2.g1 \o <<")"," ">> \o RStrip(match2.g2), dict))
    ELSE IF IsMatch(match3)
        THEN UnnumberedCallee(line, dict, match1, match3, RStrip(match3.g1))
    ELSE [line |-> line, dict |-> dict, err |-> "NameError"]

CallerLoop(line, dict, lastCalled) ==
    CallerPass(line, dict, lastCalled, Match1(line), Match2(line), Match3(line))

\* lines 871-879: footnotes that do not match the caller/callee system
RECURSIVE LeftOverFootnotes(_)
LeftOverFootnotes(line) ==
    LET match4 == Match4(line)
    IN  IF ~IsMatch(match4) THEN line
        ELSE LeftOverFootnotes(Slice(line, 0, match4.start) \o FootnoteMarker(match4.g1)
                                   \o SliceFrom(line, match4.end))

\* '<WT(.+?)>' (lines 881-886): deleted
WTAt(s, p) ==
    LET e == LazyUntil(s, p + 3, <<">">>)
    IN  IF StartsAt(s, <<"<","W","T">>, p) /\ e # -1 THEN [start |-> p, end |-> e + 1] ELSE NoMatch

RECURSIVE DeleteWT(_)
DeleteWT(line) ==
    LET cand == { p \in 0..Len(line) : IsMatch(WTAt(line, p)) }
        m == IF cand = {} THEN NoMatch ELSE WTAt(line, MinOf(cand))
    IN  IF ~IsMatch(m) THEN line
        ELSE DeleteWT(Slice(line, 0, m.start) \o SliceFrom(line, m.end))

\* '<WH0(\d{1,4})>' and '<WG(\d{1,4})>' (lines 887-898): Strong's numbers
StrongsAt(s, p, tag) ==
    LET a == p + Len(tag)
        ns == { n \in 1..4 : (\A k \in 0..(n - 1) : DigitAt(s, a + k)) /\ CharAt(s, a + n, ">") }
    IN  IF StartsAt(s, tag, p) /\ ns # {}
           THEN [start |-> p, end |-> a + MinOf(ns) + 1, g1 |-> Slice(s, a, a + MinOf(ns))]
        ELSE NoMatch

RECURSIVE RewriteStrongs(_, _, _)
RewriteStrongs(line, tag, letter) ==
    LET cand == { p \in 0..Len(line) : IsMatch(StrongsAt(line, p, tag)) }
        m == IF cand = {} THEN NoMatch ELSE StrongsAt(line, MinOf(cand), tag)
    IN  IF ~IsMatch(m) THEN line
        ELSE RewriteStrongs(Slice(line, 0, m.start) \o <<"\\","s","t","r"," ">> \o letter \o m.g1 \o <<" ","\\","s","t","r","*">>
                                \o SliceFrom(line, m.end),
                            tag, letter)

\* the "Straight substitutions" of lines 907-912
GBFSubstitutions(line) ==
    ReplaceAll(ReplaceAll(ReplaceAll(line, <<"<","C","M",">">>, <<"\\","N","L","*","*","\\","p","\\","N","L","*","*">>), <<"<","F","o",">">>, <<"\\","N","L","*","*">>),
               <<"\n">>, <<"\\","N","L","*","*">>)

\* lines 914-919: the final check, paired the outcome of replaceFixedPairs
GBFFinalCheck(paired, line, debugFlag) ==
    IF paired.err # "none" THEN paired
    ELSE IF HasAngle(line) /\ debugFlag /\ debuggingThisModule
        THEN [line |-> line, err |-> "NameError", log |-> paired.log]
    ELSE [line |-> line, err |-> "none", log |-> paired.log]

\* lines 900-919
GBFPairs(paired, debugFlag) == GBFFinalCheck(paired, GBFSubstitutions(paired.line), debugFlag)

\* lines 871-919: what follows the caller loop, notes its outcome
GBFAfterNotes(notes, debugFlag) ==
    IF notes.err # "none" THEN [line |-> notes.line, err |-> notes.err, log |-> <<>>]
    ELSE GBFPairs(replaceFixedPairs(GBFReplacementList,
                      RewriteStrongs(RewriteStrongs(DeleteWT(LeftOverFootnotes(notes.line)),
                                                    <<"<","W","H","0">>, <<"H">>),
                                     <<"<","W","G">>, <<"G">>)),
                  debugFlag)

\* lines 796-797
ASVFix(gbfVerseString, moduleName) ==
    IF moduleName = "ASV"
       THEN ReplaceAll(gbfVerseString, <<"p","i","t"," ","o","f"," ","t","h","e","<","R","F",">","1","<","R","f",">"," ","s","h","e","a","r","i","n","g">>, <<"p","i","t"," ","o","f"," ","t","h","e","<","R","F",">","2","<","R","f",">"," ","s","h","e","a","r","i","n","g">>)
       ELSE gbfVerseString

\* lines 794-870: lastCalled = None, contentsDict = {}, then the caller loop
GBFNotes(gbfVerseString, moduleName) ==
    CallerLoop(ASVFix(gbfVerseString, moduleName), EmptyDict, FALSE)

\* The filter's outcome: [line, err, log]; err names the exception when it raises.
filterGBFVerseLine(gbfVerseString, moduleName, BBB, C, V, debugFlag) ==
    GBFAfterNotes(GBFNotes(gbfVerseString, moduleName), debugFlag)

-----------------------------------------------------------------------------
(* filterOSISVerseLine.  The passes modelled are the ones that can act on a
   text made of the tokens InitFilter draws: the literal substitutions, the
   deletion of the importer milestone, the div/title start, the div type pass,
   the w, q, item and hi passes, the pair table and the final check.  Every
   other pass of lines 262-715 is a regular expression that needs a literal no
   such text holds ('eID=', 'sID=', 'subType="x-preverse"', 'type="front"',
   'type="section"' closed by '>' alone, 'type="colophon"', '<chapter ',
   '<verse ', '<lg ', '</title>', '<title ', '<head>', 'type="block"', '<l ',
   '<name ', '<seg ', '<foreign ', '<reference', 'type="x-usfm-',
   'type="x-strongsMarkup"', '<milestone ' with 'type="x-p"' or 'type="cQuote"',
   '<closer ', '<note', '<abbr', '<a '), and leaves such a text as it is. *)

\* ('<seg><transChange type="added">','\\add ','</transChange></seg>','\\add*')
segTransChangePair == << <<"<","s","e","g",">","<","t","r","a","n","s","C","h","a","n","g","e"," ","t","y","p","e","=","\"","a","d","d","e","d","\"",">">>, <<"\\","a","d","d"," ">>, <<"<","/","t","r","a","n","s","C","h","a","n","g","e",">","<","/","s","e","g",">">>, <<"\\","a","d","d","*">> >>
\* ('<catchWord>','\\add ','</catchWord>','\\add*')
catchWordPair == << <<"<","c","a","t","c","h","W","o","r","d",">">>, <<"\\","a","d","d"," ">>, <<"<","/","c","a","t","c","h","W","o","r","d",">">>, <<"\\","a","d","d","*">> >>
\* ('<speaker>','\\sp ','</speaker>','\\sp*')
speakerPair == << <<"<","s","p","e","a","k","e","r",">">>, <<"\\","s","p"," ">>, <<"<","/","s","p","e","a","k","e","r",">">>, <<"\\","s","p","*">> >>
\* ('<inscription>','\\bdit ','</inscription>','\\bdit*')
inscriptionPair == << <<"<","i","n","s","c","r","i","p","t","i","o","n",">">>, <<"\\","b","d","i","t"," ">>, <<"<","/","i","n","s","c","r","i","p","t","i","o","n",">">>, <<"\\","b","d","i","t","*">> >>
\* ('<milestone type="x-idiom-start"/>','\\bdit ','<milestone type="x-idiom-end"/>','\\bdit*')
idiomPair == << <<"<","m","i","l","e","s","t","o","n","e"," ","t","y","p","e","=","\"","x","-","i","d","i","o","m","-","s","t","a","r","t","\"","/",">">>, <<"\\","b","d","i","t"," ">>, <<"<","m","i","l","e","s","t","o","n","e"," ","t","y","p","e","=","\"","x","-","i","d","i","o","m","-","e","n","d","\"","/",">">>, <<"\\","b","d","i","t","*">> >>
\* ('<foreign>','\\tl ','</foreign>','\\tl*')
foreignPair == << <<"<","f","o","r","e","i","g","n",">">>, <<"\\","t","l"," ">>, <<"<","/","f","o","r","e","i","g","n",">">>, <<"\\","t","l","*">> >>
\* ('<divineName type="x-yhwh">','\\nd ','</divineName>','\\nd*')
divineNameYhwhPair == << <<"<","d","i","v","i","n","e","N","a","m","e"," ","t","y","p","e","=","\"","x","-","y","h","w","h","\"",">">>, <<"\\","n","d"," ">>, <<"<","/","d","i","v","i","n","e","N","a","m","e",">">>, <<"\\","n","d","*">> >>
\* ('<transChange>','\\add ','</transChange>','\\add*')
transChangePair == << <<"<","t","r","a","n","s","C","h","a","n","g","e",">">>, <<"\\","a","d","d"," ">>, <<"<","/","t","r","a","n","s","C","h","a","n","g","e",">">>, <<"\\","a","d","d","*">> >>
\* ('<transChange type="added">','\\add ','</transChange>','\\add*')
transChangeAddedPair == << <<"<","t","r","a","n","s","C","h","a","n","g","e"," ","t","y","p","e","=","\"","a","d","d","e","d","\"",">">>, <<"\\","a","d","d"," ">>, <<"<","/","t","r","a","n","s","C","h","a","n","g","e",">">>, <<"\\","a","d","d","*">> >>

\* the replacementList of lines 718-736, its last two entries chosen by the text
OSISReplacementList(line) ==
    << segDivineNamePair, segTransChangePair, catchWordPair, speakerPair, inscriptionPair,
       idiomPair, segPair, foreignPair, iPair,
       IF Contains(line, <<"<","d","i","v","i","n","e","N","a","m","e",">">>) THEN divineNamePair ELSE divineNameYhwhPair,
       IF Contains(line, <<"<","t","r","a","n","s","C","h","a","n","g","e",">">>) THEN transChangePair ELSE transChangeAddedPair >>

\* for old, new in subs: verseLine = verseLine.replace( old, new )
\* An entry whose old text is not in the line changes nothing, so the loop goes
\* straight to the next entry whose old text is there.
RECURSIVE Substitute(_, _)
Substitute(line, subs) ==
    LET hits == { k \in 1..Len(subs) : Contains(line, subs[k][1]) }
        k0 == MinOf(hits)
    IN  IF hits = {} THEN line
        ELSE Substitute(ReplaceAll(line, subs[k0][1], subs[k0][2]),
                        SubSeq(subs, k0 + 1, Len(subs)))

\* the "Straight substitutions" of lines 243-260
OSISSubstitutions ==
    << << <<" ","/",">">>, <<"/",">">> >>,
       << <<"<","m","i","l","e","s","t","o","n","e"," ","m","a","r","k","e","r","=","\"","¶","\""," ","t","y","p","e","=","\"","x","-","p","\"","/",">">>, <<"\\","N","L","*","*","\\","p","\\","N","L","*","*">> >>,
       << <<"<","m","i","l","e","s","t","o","n","e"," ","m","a","r","k","e","r","=","\"","¶","\""," ","s","u","b","T","y","p","e","=","\"","x","-","a","d","d","e","d","\""," ","t","y","p","e","=","\"","x","-","p","\"","/",">">>, <<"\\","N","L","*","*","\\","p","\\","N","L","*","*">> >>,
       << <<"<","m","i","l","e","s","t","o","n","e"," ","t","y","p","e","=","\"","x","-","e","x","t","r","a","-","p","\"","/",">">>, <<"\\","N","L","*","*","\\","p","\\","N","L","*","*">> >>,
       << <<"<","m","i","l","e","s","t","o","n","e"," ","t","y","p","e","=","\"","l","i","n","e","\"","/",">","<","m","i","l","e","s","t","o","n","e"," ","t","y","p","e","=","\"","l","i","n","e","\"","/",">">>, <<"\\","N","L","*","*","\\","b","\\","N","L","*","*">> >>,
       << <<"<","m","i","l","e","s","t","o","n","e"," ","t","y","p","e","=","\"","l","i","n","e","\"","/",">">>, <<"\\","N","L","*","*">> >>,
       << <<"<","t","i","t","l","e","P","a","g","e",">">>, <<"\\","N","L","*","*">> >>,
       << <<"<","/","t","i","t","l","e","P","a","g","e",">">>, <<"\\","N","L","*","*">> >>,
       << <<"<","l","b"," ","t","y","p","e","=","\"","x","-","b","e","g","i","n","-","p","a","r","a","g","r","a","p","h","\"","/",">">>, <<"\\","N","L","*","*","\\","p","\\","N","L","*","*">> >>,
       << <<"<","l","b"," ","t","y","p","e","=","\"","x","-","e","n","d","-","p","a","r","a","g","r","a","p","h","\"","/",">">>, <<"\\","N","L","*","*">> >>,
       << <<"<","l","b"," ","s","u","b","T","y","p","e","=","\"","x","-","s","a","m","e","-","p","a","r","a","g","r","a","p","h","\""," ","t","y","p","e","=","\"","x","-","b","e","g","i","n","-","p","a","r","a","g","r","a","p","h","\"","/",">">>, <<"\\","N","L","*","*">> >>,
       << <<"<","l","b"," ","s","u","b","T","y","p","e","=","\"","x","-","e","x","t","r","a","-","s","p","a","c","e","\""," ","t","y","p","e","=","\"","x","-","b","e","g","i","n","-","p","a","r","a","g","r","a","p","h","\"","/",">">>, <<"\\","N","L","*","*","\\","b","\\","N","L","*","*">> >>,
       << <<"<","l","b","/",">">>, <<"\\","N","L","*","*">> >>,
       << <<"<","l","b"," ","t","y","p","e","=","\"","x","-","u","n","p","a","r","a","g","r","a","p","h","e","d","\"","/",">">>, <<>> >>,
       << <<"<","l","i","s","t",">">>, <<"\\","N","L","*","*">> >>,
       << <<"<","/","l","i","s","t",">">>, <<"\\","N","L","*","*">> >>,
       << <<"<","l","/",">">>, <<"\\","N","L","*","*","\\","q","1","\\","N","L","*","*">> >>,
       << <<"<","t","i","t","l","e"," ","s","u","b","t","y","p","e","=","\"","x","-","p","r","e","v","e","r","s","e","\""," ","t","y","p","e","=","\"","s","e","c","t","i","o","n","\"",">","<","/","t","i","t","l","e",">">>, <<>> >> >>

\* A local name of filterOSISVerseLine that no statement has assigned yet:
\* reading it raises UnboundLocalError, a NameError.
Unbound == <<"unbound">>

\* verseLine[:match.start()] + replacement + verseLine[match.end():]
Splice(line, match, replacement) ==
    Slice(line, 0, match.start) \o replacement \o SliceFrom(line, match.end)

\* '.{min,}?' followed by the literal lit, starting at 0-based from: the lowest
\* e >= from + min with lit at e and no newline in s[from:e], else -1
LazyFrom(s, from, lit, min) ==
    LET cand == { e \in (from + min)..(Len(s) - Len(lit)) :
                     /\ StartsAt(s, lit, e)
                     /\ \A k \in from..(e - 1) : s[k + 1] # "\n" }
    IN  IF cand = {} THEN -1 ELSE MinOf(cand)

\* open '([^/>]+?)' then '>' (or '/>' when selfClosing) at p: the group holds no
\* '/' and no '>', so it ends at the first of these after open
TagAt(s, p, open, selfClosing) ==
    LET a == p + Len(open)
        stops == { r \in a..(Len(s) - 1) : s[r + 1] \in {"/", ">"} }
        stop == MinOf(stops)
    IN  IF ~StartsAt(s, open, p) \/ stops = {} THEN NoMatch
        ELSE IF stop = a THEN NoMatch
        ELSE IF ~selfClosing /\ s[stop + 1] = ">"
            THEN [start |-> p, end |-> stop + 1, g1 |-> Slice(s, a, stop)]
        ELSE IF selfClosing /\ s[stop + 1] = "/" /\ CharAt(s, stop + 1, ">")
            THEN [start |-> p, end |-> stop + 2, g1 |-> Slice(s, a, stop)]
        ELSE NoMatch

\* open '([^/>]+?)>' then '(.+?)' (min = 1) or '(.*?)' (min = 0) then close, at p
ElementAt(s, p, open, close, min) ==
    LET tag == TagAt(s, p, open, FALSE)
        e == LazyFrom(s, tag.end, close, min)
    IN  IF ~IsMatch(tag) THEN NoMatch
        ELSE IF e = -1 THEN NoMatch
        ELSE [start |-> p, end |-> e + Len(close), g1 |-> tag.g1, g2 |-> Slice(s, tag.end, e)]

\* open '(.+?)' close with open and close literals, at p
SpanAt(s, p, open, close) ==
    LET e == LazyFrom(s, p + Len(open), close, 1)
    IN  IF StartsAt(s, open, p) /\ e # -1
           THEN [start |-> p, end |-> e + Len(close), g1 |-> Slice(s, p + Len(open), e)]
        ELSE NoMatch

-----------------------------------------------------------------------------
(* handleOSISWordAttributes (lines 163-238): the state of its loop is
   [attributeString, result, err] *)

\* attributeString.count( '="' )
CountAttributes(s) == Cardinality({ i \in 0..(Len(s) - 2) : StartsAt(s, <<"=","\"">>, i) })

\* the attributes in the order each turn of the loop looks for them
AttributeNames == << <<"s","a","v","l","m">>, <<"l","e","m","m","a">>, <<"m","o","r","p","h">>, <<"t","y","p","e">>, <<"s","u","b","T","y","p","e">>, <<"s","r","c">>, <<"w","n">> >>

\* name '="(.+?)"' : the leftmost name=" that has a closing quote at least one
\* character on, its value ending at the first such quote; for wn the pattern is
\* 'wn="(\d+?)"' and the value is digits only
AttributeSearch(s, name) ==
    LET cand == { p \in 0..Len(s) :
                     /\ IsMatch(SpanAt(s, p, name \o <<"=","\"">>, <<"\"">>))
                     /\ name = <<"w","n">> => \A k \in 1..Len(SpanAt(s, p, name \o <<"=","\"">>, <<"\"">>).g1) :
                                          IsDigit(SpanAt(s, p, name \o <<"=","\"">>, <<"\"">>).g1[k]) }
    IN  IF cand = {} THEN NoMatch ELSE SpanAt(s, MinOf(cand), name \o <<"=","\"">>, <<"\"">>)

\* prefix '(' head '\d{1,max})' at p, the digits greedy
CodeAt(s, p, prefix, heads, max) ==
    LET a == p + Len(prefix)
        hs == { h \in heads : StartsAt(s, h, a) }
        h0 == CHOOSE h \in hs : TRUE
        d == a + Len(h0)
        ns == { n \in 1..max : \A k \in 0..(n - 1) : DigitAt(s, d + k) }
    IN  IF ~StartsAt(s, prefix, p) \/ hs = {} THEN NoMatch
        ELSE IF ns = {} THEN NoMatch
        ELSE [start |-> p, end |-> d + Cardinality(ns), g1 |-> Slice(s, a, d + Cardinality(ns))]

CodeSearch(s, prefix, heads, max) ==
    LET cand == { p \in 0..Len(s) : IsMatch(CodeAt(s, p, prefix, heads, max)) }
    IN  IF cand = {} THEN NoMatch ELSE CodeAt(s, MinOf(cand), prefix, heads, max)

\* the "while True" loops of lines 177-182, 189-194 and 201-206: one marker
\* '\\tag code\\tag*' for every code found in the value, each removed in turn
RECURSIVE CodeMarkers(_, _, _, _, _)

CodeMarkersOn(value, match, prefix, heads, max, tag) ==
    IF ~IsMatch(match) THEN <<>>
    ELSE <<"\\">> \o tag \o <<" ">> \o match.g1 \o <<"\\">> \o tag \o <<"*">>
            \o CodeMarkers(Splice(value, match, <<>>), prefix, heads, max, tag)

CodeMarkers(value, prefix, heads, max, tag) ==
    CodeMarkersOn(value, CodeSearch(value, prefix, heads, max), prefix, heads, max, tag)

\* what the value of an attribute adds to the result: for savlm and lemma
\* 'strong:([GH]\d{1,5})' -> '\\str {}\\str*', for morph
\* 'strongMorph:(TH\d{1,4})' -> '\\morph {}\\morph*', for the others nothing
AttributeMarkers(name, value) ==
    IF name \in { <<"s","a","v","l","m">>, <<"l","e","m","m","a">> } THEN CodeMarkers(value, <<"s","t","r","o","n","g",":">>, { <<"G">>, <<"H">> }, 5, <<"s","t","r">>)
    ELSE IF name = <<"m","o","r","p","h">> THEN CodeMarkers(value, <<"s","t","r","o","n","g","M","o","r","p","h",":">>, { <<"T","H">> }, 4, <<"m","o","r","p","h">>)
    ELSE <<>>

\* one attribute of one turn (lines 173-183, 185-195, 197-207, 209-214, 215-219,
\* 221-225, 227-231): its markers added, the entry removed; for type,
\* "assert typeValue.startswith( 'x-split' )"
TakeAttribute(a, name, match) ==
    IF ~IsMatch(match) THEN a
    ELSE IF name = <<"t","y","p","e">> /\ ~StartsAt(match.g1, <<"x","-","s","p","l","i","t">>, 0)
        THEN [a EXCEPT !.err = "AssertionError"]
    ELSE [attributeString |-> Splice(a.attributeString, match, <<>>),
          result |-> a.result \o AttributeMarkers(name, match.g1), err |-> a.err]

\* one turn of "for j in range( 0, attributeCount )", from the k-th attribute on
RECURSIVE AttributeTurn(_, _)
AttributeTurn(a, k) ==
    IF k > Len(AttributeNames) \/ a.err # "none" THEN a
    ELSE AttributeTurn(TakeAttribute(a, AttributeNames[k],
                                     AttributeSearch(a.attributeString, AttributeNames[k])),
                       k + 1)

RECURSIVE AttributeTurns(_, _)
AttributeTurns(a, n) ==
    IF n = 0 \/ a.err # "none" THEN a ELSE AttributeTurns(AttributeTurn(a, 1), n - 1)

\* attributeString.strip() is not empty
NotBlank(s) == \E k \in 1..Len(s) : s[k] \notin {" ", "\n", "\t"}

\* lines 233-237: what is left of the attribute string is printed, and halts
\* (NameError) only when BibleOrgSysGlobals.debugFlag is set
WordAttributesResult(a, debugFlag) ==
    IF a.err # "none" THEN [result |-> <<>>, err |-> a.err]
    ELSE IF NotBlank(a.attributeString) /\ debugFlag THEN [result |-> <<>>, err |-> "NameError"]
    ELSE [result |-> a.result, err |-> "none"]

\* The outcome: [result, err]
handleOSISWordAttributes(attributeString, debugFlag) ==
    WordAttributesResult(
        AttributeTurns([attributeString |-> attributeString, result |-> <<>>, err |-> "none"],
                       CountAttributes(attributeString)),
        debugFlag)

-----------------------------------------------------------------------------
(* filterOSISVerseLine: the searches of the passes *)

\* '<div ([^/>]*?)type="([^/>]+?)"([^/>]*?)/?>' at p.  The three groups hold no
\* '/' and no '>', so the tag ends at the first of these after '<div '.
DivAt(s, p) ==
    LET a == p + 5
        stops == { r \in a..(Len(s) - 1) : s[r + 1] \in {"/", ">"} }
        stop == MinOf(stops)
        t == Find(s, <<"t","y","p","e","=","\"">>, a)
        quotes == { q \in (t + 7)..(stop - 1) : s[q + 1] = "\"" }
        q0 == MinOf(quotes)
        end == IF s[stop + 1] = ">" THEN stop + 1
               ELSE IF CharAt(s, stop + 1, ">") THEN stop + 2 ELSE -1
    IN  IF ~StartsAt(s, <<"<","d","i","v"," ">>, p) \/ stops = {} THEN NoMatch
        ELSE IF t = -1 \/ t + 6 > stop \/ quotes = {} \/ end = -1 THEN NoMatch
        ELSE [start |-> p, end |-> end, g2 |-> Slice(s, t + 6, q0)]

\* the body-paragraph marker for a paragraph div of any chapter
DivReplacementIgnoringChapter(divType, C) ==
    IF divType = <<"p","a","r","a","g","r","a","p","h">> THEN <<"\\","N","L","*","*","\\","p","\\","N","L","*","*">> ELSE <<"halt">>

\* lines 368-377: the replacement for a div type, <<"halt">> for any other type
DivReplacement(divType, C) ==
    IF divType = <<"x","-","p">> THEN <<"\\","N","L","*","*","\\","p","\\","N","L","*","*">>
    ELSE IF divType = <<"g","l","o","s","s","a","r","y">> THEN <<"\\","N","L","*","*","\\","i","d"," ","G","L","O","\\","N","L","*","*">>
    ELSE IF divType = <<"b","o","o","k">> THEN <<>>
    ELSE IF divType = <<"o","u","t","l","i","n","e">> THEN <<"\\","N","L","*","*","\\","i","o","t"," ">>
    ELSE IF divType = <<"p","a","r","a","g","r","a","p","h">> THEN (IF C = <<"0">> THEN <<"\\","N","L","*","*","\\","i","p"," ">> ELSE <<"\\","N","L","*","*","\\","p","\\","N","L","*","*">>)
    ELSE IF divType = <<"m","a","j","o","r","S","e","c","t","i","o","n">> THEN <<"\\","N","L","*","*","\\","m","s","\\","N","L","*","*">>
    ELSE IF divType = <<"s","e","c","t","i","o","n">> THEN <<"\\","N","L","*","*","\\","s","1"," ">>
    ELSE IF divType \in { <<"p","r","e","f","a","c","e">>, <<"t","i","t","l","e","P","a","g","e">>, <<"i","n","t","r","o","d","u","c","t","i","o","n">> } THEN <<"\\","N","L","*","*","\\","i","p"," ">>
    ELSE IF divType \in { <<"x","-","l","i","c","e","n","s","e">>, <<"x","-","t","r","a","d","e","m","a","r","k">> } THEN <<"\\","N","L","*","*","\\","r","e","m"," ">>
    ELSE <<"halt">>

\* '<div ([^/>]*?)type="([^/>]+?)"([^/>]*?)/><title>' at p
DivTitleAt(s, p) ==
    LET m == DivAt(s, p)
    IN  IF ~IsMatch(m) THEN NoMatch
        ELSE IF s[m.end - 1] = "/" /\ StartsAt(s, <<"<","t","i","t","l","e",">">>, m.end)
            THEN [start |-> p, end |-> m.end + Len(<<"<","t","i","t","l","e",">">>), g2 |-> m.g2]
        ELSE NoMatch

\* '<q(.*?)>(.+?)</q>' at p: the first group ends at the first '>' that has a
\* '</q>' at least one character on
PlainQuoteAt(s, p) ==
    LET a == p + Len(<<"<","q">>)
        gs == { g \in a..(Len(s) - 1) :
                   /\ s[g + 1] = ">"
                   /\ \A k \in a..(g - 1) : s[k + 1] # "\n"
                   /\ LazyFrom(s, g + 1, <<"<","/","q",">">>, 1) # -1 }
        g0 == MinOf(gs)
        e == LazyFrom(s, g0 + 1, <<"<","/","q",">">>, 1)
    IN  IF ~StartsAt(s, <<"<","q">>, p) \/ gs = {} THEN NoMatch
        ELSE [start |-> p, end |-> e + Len(<<"<","/","q",">">>), g2 |-> Slice(s, g0 + 1, e)]

\* '([^/>]*?)>' from 0-based from: the position of the '>' when the first '/'
\* or '>' at or after from is a '>', else -1
TagEnd(s, from) ==
    LET stops == { r \in from..(Len(s) - 1) : s[r + 1] \in {"/", ">"} }
    IN  IF stops = {} THEN -1
        ELSE IF s[MinOf(stops) + 1] = ">" THEN MinOf(stops)
        ELSE -1

\* '<item ([^/>]*?)type="(.+?)"([^/>]*?)>' at p, followed by '(.+?)</item>' when
\* closed: <<t, v>> are the places of type=" and of the quote that ends the
\* value, the leftmost that let the rest match
ItemAt(s, p, closed) ==
    LET a == p + Len(<<"<","i","t","e","m"," ">>)
        ts == { t \in a..Len(s) :
                   /\ StartsAt(s, <<"t","y","p","e","=","\"">>, t)
                   /\ \A k \in a..(t - 1) : s[k + 1] \notin {"/", ">"} }
        tvs == { tv \in { <<t, v>> : t \in ts, v \in a..(Len(s) - 1) } :
                   /\ tv[2] >= tv[1] + Len(<<"t","y","p","e","=","\"">>) + 1
                   /\ s[tv[2] + 1] = "\""
                   /\ \A k \in (tv[1] + Len(<<"t","y","p","e","=","\"">>))..(tv[2] - 1) : s[k + 1] # "\n"
                   /\ TagEnd(s, tv[2] + 1) # -1
                   /\ closed => LazyFrom(s, TagEnd(s, tv[2] + 1) + 1, <<"<","/","i","t","e","m",">">>, 1) # -1 }
        t0 == MinOf({ tv[1] : tv \in tvs })
        v0 == MinOf({ tv[2] : tv \in { x \in tvs : x[1] = t0 } })
        g == TagEnd(s, v0 + 1)
        e == LazyFrom(s, g + 1, <<"<","/","i","t","e","m",">">>, 1)
    IN  IF ~StartsAt(s, <<"<","i","t","e","m"," ">>, p) THEN NoMatch
        ELSE IF tvs = {} THEN NoMatch
        ELSE [start |-> p,
              end |-> IF closed THEN e + Len(<<"<","/","i","t","e","m",">">>) ELSE g + 1,
              attributes |-> Slice(s, a, t0) \o Slice(s, v0 + 1, g),
              itemType |-> Slice(s, t0 + Len(<<"t","y","p","e","=","\"">>), v0),
              item |-> IF closed THEN Slice(s, g + 1, e) ELSE <<>>]

\* the regular expression of each pass, at p
OSISMatchAt(s, p, pass) ==
    CASE pass = "importer" ->   \* line 263
            SpanAt(s, p, <<"<","m","i","l","e","s","t","o","n","e"," ","t","y","p","e","=","\"","x","-","i","m","p","o","r","t","e","r","\""," ","s","u","b","T","y","p","e","=","\"","x","-","o","s","i","s","2","m","o","d","\""," ","n","=","\"","$","R","e","v",":"," ">>, <<" ","$","\"","/",">">>)
      [] pass = "divTitle" -> DivTitleAt(s, p)                        \* line 341
      [] pass = "div" -> DivAt(s, p)                                  \* line 364
      [] pass = "wTag" -> TagAt(s, p, <<"<","w"," ">>, TRUE)                    \* line 409
      [] pass = "w" -> ElementAt(s, p, <<"<","w"," ">>, <<"<","/","w",">">>, 0)              \* line 415
      [] pass = "q" -> ElementAt(s, p, <<"<","q"," ">>, <<"<","/","q",">">>, 1)              \* line 425
      [] pass = "qStart" -> TagAt(s, p, <<"<","q"," ">>, FALSE)                 \* line 439
      [] pass = "qPlain" -> PlainQuoteAt(s, p)                        \* line 482
      [] pass = "item" -> ItemAt(s, p, TRUE)                          \* line 520
      [] pass = "itemStart" -> ItemAt(s, p, FALSE)                    \* line 529
      [] pass = "hi" -> ElementAt(s, p, <<"<","h","i"," ">>, <<"<","/","h","i",">">>, 1)           \* line 594
      [] pass = "hiPlain" -> SpanAt(s, p, <<"<","h","i",">">>, <<"<","/","h","i",">">>)            \* line 612

\* the leftmost of the matches found at the places of a line
Leftmost(found) ==
    IF \A m \in found : ~IsMatch(m) THEN NoMatch
    ELSE CHOOSE m \in found : IsMatch(m) /\ \A n \in found : IsMatch(n) => m.start <= n.start

\* re.search: the leftmost match
OSISSearch(s, pass) == Leftmost({ OSISMatchAt(s, p, pass) : p \in 0..Len(s) })

-----------------------------------------------------------------------------
(* The passes of filterOSISVerseLine.  The state handed from pass to pass is
   [line, replacement, marker, err]: verseLine, the locals 'replacement' and
   'marker' (Unbound until a statement assigns them) and the exception raised. *)

PassStart(line) == [line |-> line, replacement |-> Unbound, marker |-> Unbound, err |-> "none"]

\* an exception leaves the filter; 'halt' is no name of the module, so reaching
\* it raises NameError, and so does reading a local that is Unbound
Raised(st, e) == [st EXCEPT !.err = e]

\* "replacement = ..." and
\* verseLine = verseLine[:match.start()] + replacement + verseLine[match.end():]
Rewrite(st, match, replacement) ==
    IF replacement \in { <<"halt">>, Unbound } THEN Raised(st, "NameError")
    ELSE [line |-> Splice(st.line, match, replacement), replacement |-> replacement,
          marker |-> st.marker, err |-> "none"]

\* "marker = ...", replacement = '\\{} {}\\{}*'.format( marker, words, marker )
RewriteMarked(st, match, marker, words) ==
    IF marker = Unbound THEN Raised(st, "NameError")
    ELSE Rewrite([st EXCEPT !.marker = marker], match,
                 <<"\\">> \o marker \o <<" ">> \o words \o <<"\\">> \o marker \o <<"*">>)

\* lines 346-350: the replacement for a left-over div/title start
DivTitleReplacement(sectionType) ==
    IF sectionType = <<"s","e","c","t","i","o","n">> THEN <<"\\","N","L","*","*","\\","s","1"," ">>
    ELSE IF sectionType = <<"s","u","b","S","e","c","t","i","o","n">> THEN <<"\\","N","L","*","*","\\","s","2"," ">>
    ELSE IF sectionType = <<"x","-","s","u","b","S","u","b","S","e","c","t","i","o","n">> THEN <<"\\","N","L","*","*","\\","s","3"," ">>
    ELSE <<"halt">>

\* lines 411 and 419-420: handled is what handleOSISWordAttributes gave
WordReplacement(words, handled) ==
    IF handled.err # "none" THEN << handled.err >> ELSE words \o handled.result

WordRewrite(st, match, replacement) ==
    IF Len(replacement) = 1 /\ replacement[1] \in { "NameError", "AssertionError" }
       THEN Raised(st, replacement[1])
    ELSE Rewrite(st, match, replacement)

\* lines 428-435 and 442-449: the replacement of a quote.  Only the who="Jesus"
\* branch assigns 'replacement'; the other branch leaves the local as it was.
QuoteReplacement(st, attributes, spoken, debugFlag) ==
    IF Contains(attributes, <<"w","h","o","=","\"","J","e","s","u","s","\"">>)
       THEN IF /\ Contains(attributes, <<"m","a","r","k","e","r","=","\"">>) /\ ~Contains(attributes, <<"m","a","r","k","e","r","=","\"","\"">>)
               /\ debugFlag
               THEN <<"halt">>
            ELSE spoken
    ELSE IF debugFlag THEN <<"halt">>
    ELSE st.replacement

\* lines 524-526 and 533-535: "assert itemType in ( 'x-indent-1', 'x-indent-2', )",
\* marker = 'io' if 'x-introduction' in attributes else 'li', and the
\* replacement '\\NL**\\{} ' + tail with marker+itemType[-1]
ItemRewrite(st, match, tail) ==
    IF match.itemType \notin { <<"x","-","i","n","d","e","n","t","-","1">>, <<"x","-","i","n","d","e","n","t","-","2">> } THEN Raised(st, "AssertionError")
    ELSE Rewrite([st EXCEPT !.marker = IF Contains(match.attributes, <<"x","-","i","n","t","r","o","d","u","c","t","i","o","n">>)
                                          THEN <<"i","o">> ELSE <<"l","i">>],
                 match,
                 <<"\\","N","L","*","*","\\">> \o (IF Contains(match.attributes, <<"x","-","i","n","t","r","o","d","u","c","t","i","o","n">>) THEN <<"i","o">> ELSE <<"l","i">>)
                    \o << match.itemType[Len(match.itemType)] >> \o tail)

\* lines 599-606: the marker of a highlight.  The last branch halts only when
\* debugFlag and debuggingThisModule are both set; debuggingThisModule is False
\* (line 44), so a style none of the tests knows leaves 'marker' as it was.
HiMarker(st, attributes) ==
    IF Contains(attributes, <<"\"","i","t","a","l","i","c","\"">>) THEN <<"i","t">>
    ELSE IF Contains(attributes, <<"\"","s","m","a","l","l","-","c","a","p","s","\"">>) THEN <<"s","c">>
    ELSE IF Contains(attributes, <<"\"","s","u","p","e","r","\"">>) THEN <<"o","r","d">>
    ELSE IF Contains(attributes, <<"\"","a","c","r","o","s","t","i","c","\"">>) THEN <<"t","l">>
    ELSE IF Contains(attributes, <<"\"","b","o","l","d","\"">>) THEN <<"b","d">>
    ELSE IF Contains(attributes, <<"\"","u","n","d","e","r","l","i","n","e","\"">>) THEN <<"e","m">>
    ELSE IF Contains(attributes, <<"\"","x","-","s","u","p","e","r","s","c","r","i","p","t","\"">>) THEN <<"o","r","d">>
    ELSE st.marker

\* what each pass does with its match
OSISRewrite(st, match, pass, C, debugFlag) ==
    CASE pass = "importer" -> [st EXCEPT !.line = Splice(st.line, match, <<>>)]  \* line 265
      [] pass = "divTitle" -> Rewrite(st, match, DivTitleReplacement(match.g2))  \* 343-352
      [] pass = "div" -> Rewrite(st, match, DivReplacement(match.g2, C))         \* 366-379
      [] pass = "wTag" ->                                                        \* 411-412
            WordRewrite(st, match,
                        WordReplacement(<<>>, handleOSISWordAttributes(match.g1, debugFlag)))
      [] pass = "w" ->                                                           \* 417-422
            WordRewrite(st, match,
                        WordReplacement(match.g2, handleOSISWordAttributes(match.g1, debugFlag)))
      [] pass = "q" ->                                                           \* 427-437
            Rewrite(st, match,
                    QuoteReplacement(st, match.g1, <<"\\","w","j"," ">> \o match.g2 \o <<"\\","w","j","*">>, debugFlag))
      [] pass = "qStart" ->                                                      \* 441-451
            Rewrite(st, match, QuoteReplacement(st, match.g1, <<"\\","w","j"," ">>, debugFlag))
      [] pass = "qPlain" ->                                                      \* 484-487
            Rewrite(st, match, <<"\\","N","L","*","*","\\","p","c"," ">> \o match.g2 \o <<"\\","N","L","*","*">>)
      [] pass = "item" -> ItemRewrite(st, match, <<" ">> \o match.item \o <<"\\","N","L","*","*">>)   \* 522-528
      [] pass = "itemStart" -> ItemRewrite(st, match, <<"\\","N","L","*","*">>)                   \* 531-537
      [] pass = "hi" -> RewriteMarked(st, match, HiMarker(st, match.g1), match.g2) \* 596-609
      [] pass = "hiPlain" -> RewriteMarked(st, match, <<"a","d","d">>, match.g1)           \* 614-621

\* One pass: "while True: match = re.search( ... ); if not match: break; ..."
\* when loop, and "match = re.search( ... ); if match: ..." when not
RECURSIVE OSISPass(_, _, _, _, _)

\* after a rewrite: back to the search when the pass is a loop
OSISPassAgain(st, pass, loop, C, debugFlag) ==
    IF loop THEN OSISPass(st, pass, loop, C, debugFlag) ELSE st

OSISPassOn(st, match, pass, loop, C, debugFlag) ==
    IF ~IsMatch(match) THEN st
    ELSE OSISPassAgain(OSISRewrite(st, match, pass, C, debugFlag), pass, loop, C, debugFlag)

OSISPass(st, pass, loop, C, debugFlag) ==
    IF st.err # "none" THEN st
    ELSE OSISPassOn(st, OSISSearch(st.line, pass), pass, loop, C, debugFlag)

\* a literal substitution between two passes: verseLine.replace( old, new )
OSISReplace(st, old, new) ==
    IF st.err # "none" THEN st ELSE [st EXCEPT !.line = ReplaceAll(st.line, old, new)]

\* lines 363-379
DivTypes(st, C) == OSISPass(st, "div", TRUE, C, FALSE)

\* lines 739-746: the final check, paired the outcome of replaceFixedPairs
OSISFinalCheck(paired, BBB, V, debugFlag) ==
    IF paired.err # "none" THEN paired
    ELSE IF /\ HasAngle(paired.line) /\ debugFlag /\ debuggingThisModule
            /\ (BBB # "PSA" \/ V \notin { <<"1">>, <<"5">> })
        THEN [line |-> paired.line, err |-> "NameError", log |-> paired.log]
    ELSE paired

\* lines 717-746
OSISPairs(line, BBB, V, debugFlag) ==
    OSISFinalCheck(replaceFixedPairs(OSISReplacementList(line), line), BBB, V, debugFlag)

\* lines 380-621: what follows the div pass, in the order of the code
OSISElements(st, C, debugFlag) ==
    OSISPass(OSISPass(
        OSISReplace(
            OSISPass(OSISPass(
                OSISPass(OSISPass(OSISPass(
                    OSISPass(OSISPass(
                        OSISReplace(OSISReplace(OSISReplace(st, <<"<","/","d","i","v",">">>, <<>>),
                                                <<"<","/","t","i","t","l","e",">">>, <<"\\","N","L","*","*">>),
                                    <<"<","t","i","t","l","e",">">>, <<"\\","N","L","*","*","\\","s","1"," ">>),
                        "wTag", TRUE, C, debugFlag), "w", TRUE, C, debugFlag),
                    "q", TRUE, C, debugFlag), "qStart", TRUE, C, debugFlag),
                    "qPlain", TRUE, C, debugFlag),
                "item", TRUE, C, debugFlag), "itemStart", FALSE, C, debugFlag),
            <<"<","/","i","t","e","m",">">>, <<"\\","N","L","*","*">>),
        "hi", TRUE, C, debugFlag), "hiPlain", TRUE, C, debugFlag)

\* lines 717-746: elements the outcome of the passes before the pair table
OSISAfterElements(elements, BBB, V, debugFlag) ==
    IF elements.err # "none" THEN [line |-> elements.line, err |-> elements.err, log |-> <<>>]
    ELSE OSISPairs(elements.line, BBB, V, debugFlag)

\* lines 380-746: what follows the div pass, divs its outcome
OSISAfterDivs(divs, C, BBB, V, debugFlag) ==
    OSISAfterElements(OSISElements(divs, C, debugFlag), BBB, V, debugFlag)

\* lines 243-324: the substitutions and deletions ahead of the div passes
OSISBeforeDivs(osisVerseString) ==
    OSISReplace(OSISReplace(OSISPass(PassStart(Substitute(osisVerseString, OSISSubstitutions)),
                                     "importer", FALSE, <<>>, FALSE),
                            <<"<","/","v","e","r","s","e",">">>, <<>>),
                <<"<","/","c","h","a","p","t","e","r",">">>, <<>>)

\* The filter's outcome: [line, err, log]; err names the exception when it raises.
filterOSISVerseLine(osisVerseString, moduleName, BBB, C, V, debugFlag) ==
    OSISAfterDivs(DivTypes(OSISPass(OSISBeforeDivs(osisVerseString), "divTitle", FALSE, C, debugFlag),
                           C),
                  C, BBB, V, debugFlag)

-----------------------------------------------------------------------------
(* filterTHMLVerseLine.  The passes of lines 964-988 need '<div class=' or
   '<scripRef' followed by attributes, which no token InitFilter draws holds. *)

\* ('<font color="#ff0000">','\\wj ', '</font>','\\wj*')
fontPair == << <<"<","f","o","n","t"," ","c","o","l","o","r","=","\"","#","f","f","0","0","0","0","\"",">">>, <<"\\","w","j"," ">>, <<"<","/","f","o","n","t",">">>, <<"\\","w","j","*">> >>
\* ( '<small>', '\\sc ', '</small>', '\\sc*' )
smallPair == << <<"<","s","m","a","l","l",">">>, <<"\\","s","c"," ">>, <<"<","/","s","m","a","l","l",">">>, <<"\\","s","c","*">> >>
\* ( '<note>', '\\f ', '</note>', '\\f*' )
notePair == << <<"<","n","o","t","e",">">>, <<"\\","f"," ">>, <<"<","/","n","o","t","e",">">>, <<"\\","f","*">> >>
\* ( '<scripRef>', '\\x ', '</scripRef>', '\\x*' )
scripRefPair == << <<"<","s","c","r","i","p","R","e","f",">">>, <<"\\","x"," ">>, <<"<","/","s","c","r","i","p","R","e","f",">">>, <<"\\","x","*">> >>
\* ( '<sup>', '\\ord ', '</sup>', '\\ord*' )
supPair == << <<"<","s","u","p",">">>, <<"\\","o","r","d"," ">>, <<"<","/","s","u","p",">">>, <<"\\","o","r","d","*">> >>

\* the replacementList of lines 1007-1014
THMLReplacementList == << fontPair, smallPair, notePair, scripRefPair, iPair, supPair >>

\* the "Straight substitutions" of lines 1002-1004
THMLSubstitutions == << << <<"<","b","r"," ","/",">">>, <<"\\","N","L","*","*">> >>, << <<"<","b","r","/",">">>, <<"\\","N","L","*","*">> >> >>

\* lines 1017-1022: the final check, paired the outcome of replaceFixedPairs
THMLFinalCheck(paired, debugFlag) ==
    IF paired.err # "none" THEN paired
    ELSE IF HasAngle(paired.line) /\ debugFlag /\ debuggingThisModule
        THEN [line |-> paired.line, err |-> "NameError", log |-> paired.log]
    ELSE paired

\* The filter's outcome: [line, err, log]; err names the exception when it raises.
filterTHMLVerseLine(thmlVerseString, moduleName, BBB, C, V, debugFlag) ==
    THMLFinalCheck(replaceFixedPairs(THMLReplacementList,
                                     Substitute(DeleteWT(thmlVerseString), THMLSubstitutions)),
                   debugFlag)

-----------------------------------------------------------------------------
(* replaceFixedPairs, one loop iteration at a time *)

MaxPieces == 5

\* all concatenations of at most n pieces
RECURSIVE TextsOf(_, _)
TextsOf(pieces, n) ==
    IF n = 0 THEN { <<>> }
    ELSE LET shorter == TextsOf(pieces, n - 1)
         IN  shorter \cup { p \o t : p \in pieces, t \in shorter }

PairsCases ==
    { [list |-> << divineNamePair >>,
       pieces |-> { divineNamePair[1], divineNamePair[3], <<"a">>, <<"\\","p"," ">>, <<"\\">> }],
      [list |-> << iPair >>,
       pieces |-> { iPair[1], iPair[3], <<"a">>, <<" ">> }],
      [list |-> << segPair >>,
       pieces |-> { segPair[1], segPair[3], <<"a">>, <<"<","s">>, <<"e","g",">">> }],
      [list |-> GBFReplacementList,
       pieces |-> { <<"<","F","O",">">>, <<"<","F","o",">">>, <<"a">>, <<"<","F","I",">">> }] }

\* the tokens of '<seg>' and '<divineName>', which the first pair of
\* filterOSISVerseLine's list joins into one open and one close token
OSISPairsPieces == { segPair[1], divineNamePair[1], divineNamePair[3], segPair[3], <<"a">> }

InitPairs ==
    /\ \/ \E c \in PairsCases :
             /\ replacementList = c.list
             /\ inputLine \in TextsOf(c.pieces, MaxPieces)
       \/ /\ inputLine \in TextsOf(OSISPairsPieces, MaxPieces)
          /\ replacementList = OSISReplacementList(inputLine)
    /\ verseLine = inputLine
    /\ pairIx = 1
    /\ ix = Find(inputLine, replacementList[1][1], 0)
    /\ rfpPc = "open"
    /\ log = <<>>
    /\ IdleFilter /\ globalDebugFlag = FALSE
    /\ IdleLoad
    /\ IdleVerses
    /\ IdleUSX

\* lines 113-120
OpenStep ==
    /\ rfpPc = "open"
    /\ ix # -1
    /\ LET st == OpenIteration([line |-> verseLine, ix |-> ix, log |-> log],
                               replacementList[pairIx])
       IN  /\ verseLine' = st.line
           /\ ix' = st.ix
           /\ log' = st.log
    /\ UNCHANGED <<usxVars, replacementList, inputLine, pairIx, rfpPc, filterVars, loadVars, verseVars>>

\* lines 121-134, then the for loop's next turn (line 110) or the return
CloseStep ==
    /\ rfpPc = "open"
    /\ ix = -1
    /\ LET r == BareCloseRepair(verseLine, log, replacementList[pairIx])
       IN  /\ verseLine' = r.line
           /\ log' = r.log
           /\ IF r.err # "none"
                 THEN /\ rfpPc' = "raised"
                      /\ UNCHANGED <<pairIx, ix>>
              ELSE IF pairIx = Len(replacementList)
                 THEN /\ rfpPc' = "done"
                      /\ UNCHANGED <<pairIx, ix>>
              ELSE /\ rfpPc' = "open"
                   /\ pairIx' = pairIx + 1
                   /\ ix' = Find(r.line, replacementList[pairIx + 1][1], 0)
    /\ UNCHANGED <<usxVars, replacementList, inputLine, filterVars, loadVars, verseVars>>

NextPairs == OpenStep \/ CloseStep

SpecPairs == InitPairs /\ [][NextPairs]_vars

-----------------------------------------------------------------------------
(* The dialect filters and replaceFixedPairs, one call per behaviour *)

\* longest run of plain content wrapped in a pair
MaxContent == 2
\* most groups in a well-formed text
MaxGroups == 2
\* most tokens in a free text
MaxTokens == 3
\* most items in a GBF text with footnotes
MaxItems == 4
\* most elements in an OSIS text of whole elements
MaxElements == 2

\* non-empty plain content
PlainContents == TextsOf({ <<"a">>, <<" ">>, <<"L","O","R","D">> }, MaxContent) \ { <<>> }

\* every pair the OSIS filter can put in its table
AllOSISPairs ==
    { segDivineNamePair, segTransChangePair, catchWordPair, speakerPair, inscriptionPair,
      idiomPair, segPair, foreignPair, iPair, divineNamePair, divineNameYhwhPair,
      transChangePair, transChangeAddedPair }

\* openCode + content + closeCode
Wrap(pair, content) == pair[1] \o content \o pair[3]

\* a group: plain 'a', or a tag pair around nothing, 'a', or one inner tag pair
\* with 'a' inside or after it; tags are <<open, close>> tokens
WellFormedGroups(tags) ==
    LET inner == { <<>>, <<"a">> }
                 \cup { u[1] \o u[2] : u \in tags }
                 \cup { u[1] \o <<"a">> \o u[2] : u \in tags }
                 \cup { u[1] \o u[2] \o <<"a">> : u \in tags }
    IN  { <<"a">> } \cup { t[1] \o x \o t[2] : t \in tags, x \in inner }

WellFormedTexts(tags) == TextsOf(WellFormedGroups(tags), MaxGroups)

OSISTags == { << segPair[1], segPair[3] >>, << divineNamePair[1], divineNamePair[3] >> }
GBFTags == { << <<"<","F","I",">">>, <<"<","F","i",">">> >>, << <<"<","F","O",">">>, <<"<","F","o",">">> >> }
THMLTags == { << iPair[1], iPair[3] >>, << smallPair[1], smallPair[3] >> }

OSISTokens == { <<"a">>, <<"<">>, <<"<","d","i","v"," ","t","y","p","e","=","\"","p","a","r","a","g","r","a","p","h","\"","/",">">>, <<"<","d","i","v"," ","t","y","p","e","=","\"","b","o","g","u","s","\"","/",">">> }
\* whole OSIS elements within a line, one or more per pass of lines 408-621
OSISInlineTokens ==
    { <<"a">>,
      <<"<","w"," ","l","e","m","m","a","=","\"","s","t","r","o","n","g",":","G","1"," ","s","t","r","o","n","g",":","G","2","\""," ","m","o","r","p","h","=","\"","s","t","r","o","n","g","M","o","r","p","h",":","T","H","8","\"",">","a","<","/","w",">">>,
      <<"<","w"," ","s","a","v","l","m","=","\"","s","t","r","o","n","g",":","H","3","\""," ","l","e","m","m","a","=","\"","s","t","r","o","n","g",":","G","1","\"",">","a","<","/","w",">">>,
      <<"<","w"," ","l","e","m","m","a","=","\"","\""," ","m","o","r","p","h","=","\"","s","t","r","o","n","g","M","o","r","p","h",":","T","H","1","\"",">","a","<","/","w",">">>,
      <<"<","w"," ","f","o","o","=","\"","b","a","r","\"",">","a","<","/","w",">">>,
      <<"<","w"," ","t","y","p","e","=","\"","x","\""," ","l","e","m","m","a","=","\"","s","t","r","o","n","g",":","G","1","\"",">","a","<","/","w",">">>,
      <<"<","w"," ","l","e","m","m","a","=","\"","s","t","r","o","n","g",":","G","1","\"","/",">">>,
      <<"<","q"," ","w","h","o","=","\"","J","e","s","u","s","\"",">","a","<","/","q",">">>,
      <<"<","q"," ","w","h","o","=","\"","x","\"",">","b","<","/","q",">">>,
      <<"<","q",">","a","<","/","q",">">>,
      <<"<","h","i"," ","t","y","p","e","=","\"","i","t","a","l","i","c","\"",">","a","<","/","h","i",">">>,
      <<"<","h","i"," ","t","y","p","e","=","\"","b","o","l","d","\"",">","a","<","/","h","i",">">>,
      <<"<","h","i"," ","t","y","p","e","=","\"","x","\"",">","b","<","/","h","i",">">>,
      <<"<","h","i",">","a","<","/","h","i",">">> }
\* the OSIS tags of lines 262-379 and 519-537 around a word and a quote
OSISBlockTokens ==
    { <<"a">>,
      <<"<","q"," ","w","h","o","=","\"","x","\"",">","b","<","/","q",">">>,
      <<"<","m","i","l","e","s","t","o","n","e"," ","t","y","p","e","=","\"","x","-","i","m","p","o","r","t","e","r","\""," ","s","u","b","T","y","p","e","=","\"","x","-","o","s","i","s","2","m","o","d","\""," ","n","=","\"","$","R","e","v",":"," ","1"," ","$","\"","/",">">>,
      <<"<","d","i","v"," ","t","y","p","e","=","\"","s","e","c","t","i","o","n","\"","/",">","<","t","i","t","l","e",">">>,
      <<"<","d","i","v"," ","t","y","p","e","=","\"","s","u","b","S","e","c","t","i","o","n","\"","/",">","<","t","i","t","l","e",">">>,
      <<"<","d","i","v"," ","t","y","p","e","=","\"","p","a","r","a","g","r","a","p","h","\"","/",">">>,
      <<"<","i","t","e","m"," ","t","y","p","e","=","\"","x","-","i","n","d","e","n","t","-","1","\"",">">>,
      <<"<","i","t","e","m"," ","t","y","p","e","=","\"","x","-","i","n","d","e","n","t","-","2","\""," ","s","u","b","T","y","p","e","=","\"","x","-","i","n","t","r","o","d","u","c","t","i","o","n","\"",">","a","<","/","i","t","e","m",">">>,
      <<"<","i","t","e","m"," ","t","y","p","e","=","\"","x","-","i","n","d","e","n","t","-","3","\"",">","a","<","/","i","t","e","m",">">> }

THMLTokens == { <<"a">>, <<">">>, iPair[1], <<"<","b","r","/",">">> }

\* '<RF>' + n + '<Rf>'
CallerToken(n) == <<"<","R","F",">">> \o n \o <<"<","R","f",">">>
\* '<RF>' + n + ') ' + text + '<Rf>'
CalleeSpan(n, text) == <<"<","R","F",">">> \o n \o <<")"," ">> \o text \o <<"<","R","f",">">>

GBFItems ==
    { <<"a">>, CallerToken(<<"1">>), CallerToken(<<"2">>), CalleeSpan(<<"1">>, <<"a">>),
      CalleeSpan(<<"1">>, <<"a"," ","2",")"," ","b">>), <<"<","R","F",">","a","<","R","f",">">>,
      <<"<","R","F",">","a","b","<","R","f",">">> }

FilterCases ==
    { [call |-> "filterOSISVerseLine", shape |-> "tokens", lists |-> { <<>> },
       texts |-> TextsOf(OSISTokens, MaxTokens), Cs |-> { <<"0">>, <<"1">> }, Vs |-> { <<"1">> }, flags |-> BOOLEAN],
      [call |-> "filterOSISVerseLine", shape |-> "wellformed", lists |-> { <<>> },
       texts |-> WellFormedTexts(OSISTags), Cs |-> { <<"1">> }, Vs |-> { <<"1">> }, flags |-> { FALSE }],
      [call |-> "filterOSISVerseLine", shape |-> "wrapped", lists |-> { <<>> },
       texts |-> { Wrap(p, c) : p \in AllOSISPairs, c \in PlainContents },
       Cs |-> { <<"1">> }, Vs |-> { <<"1">> }, flags |-> { FALSE }],
      [call |-> "filterGBFVerseLine", shape |-> "notes", lists |-> { <<>> },
       texts |-> TextsOf(GBFItems, MaxItems), Cs |-> { <<"1">> }, Vs |-> { <<"1">> }, flags |-> { FALSE }],
      [call |-> "filterGBFVerseLine", shape |-> "wellformed", lists |-> { <<>> },
       texts |-> WellFormedTexts(GBFTags), Cs |-> { <<"1">> }, Vs |-> { <<"1">> }, flags |-> BOOLEAN],
      [call |-> "filterTHMLVerseLine", shape |-> "tokens", lists |-> { <<>> },
       texts |-> TextsOf(THMLTokens, MaxTokens), Cs |-> { <<"1">> }, Vs |-> { <<"1">> }, flags |-> BOOLEAN],
      [call |-> "filterTHMLVerseLine", shape |-> "wellformed", lists |-> { <<>> },
       texts |-> WellFormedTexts(THMLTags), Cs |-> { <<"1">> }, Vs |-> { <<"1">> }, flags |-> { FALSE }] }
    \cup { [call |-> "replaceFixedPairs", shape |-> "wrapped", lists |-> { << p >> },
            texts |-> { Wrap(p, c) : c \in PlainContents }, Cs |-> { <<"1">> }, Vs |-> { <<"1">> },
            flags |-> { FALSE }] : p \in AllOSISPairs }

InitFilter ==
    /\ \E c \in FilterCases :
          /\ call = c.call
          /\ shape = c.shape
          /\ replacementList \in c.lists
          /\ inputLine \in c.texts
          /\ argC \in c.Cs
          /\ argV \in c.Vs
          /\ globalDebugFlag \in c.flags
    /\ result = NoResult
    /\ again = NoResult
    /\ IdlePairs
    /\ IdleLoad
    /\ IdleVerses
    /\ IdleUSX

\* One call of the filter on inputLine.
\* moduleName and BBB only reach the messages and the final check.
FilterOSIS ==
    /\ call = "filterOSISVerseLine"
    /\ result = NoResult
    /\ result' = filterOSISVerseLine(inputLine, "KJV", "GEN", argC, argV, globalDebugFlag)
    /\ UNCHANGED <<usxVars, rfpVars, call, shape, argC, argV, globalDebugFlag, again, loadVars, verseVars>>

FilterGBF ==
    /\ call = "filterGBFVerseLine"
    /\ result = NoResult
    /\ result' = filterGBFVerseLine(inputLine, "KJV", "GEN", argC, argV, globalDebugFlag)
    /\ UNCHANGED <<usxVars, rfpVars, call, shape, argC, argV, globalDebugFlag, again, loadVars, verseVars>>

FilterTHML ==
    /\ call = "filterTHMLVerseLine"
    /\ result = NoResult
    /\ result' = filterTHMLVerseLine(inputLine, "KJV", "GEN", argC, argV, globalDebugFlag)
    /\ UNCHANGED <<usxVars, rfpVars, call, shape, argC, argV, globalDebugFlag, again, loadVars, verseVars>>

ReplacePairs ==
    /\ call = "replaceFixedPairs"
    /\ result = NoResult
    /\ result' = replaceFixedPairs(replacementList, inputLine)
    /\ UNCHANGED <<usxVars, rfpVars, call, shape, argC, argV, globalDebugFlag, again, loadVars, verseVars>>

NextFilter == FilterOSIS \/ FilterGBF \/ FilterTHML \/ ReplacePairs

SpecFilter == InitFilter /\ [][NextFilter]_vars

-----------------------------------------------------------------------------
(* filterOSISVerseLine on verses of whole elements, and on what it returned.
   The chapter and the verse vary where a pass reads them. *)

ElementCases ==
    { [texts |-> TextsOf(OSISInlineTokens, MaxElements), Cs |-> { <<"1">> }, Vs |-> { <<"1">> }],
      [texts |-> TextsOf(OSISBlockTokens, MaxElements), Cs |-> { <<"0">>, <<"1">> },
       Vs |-> { <<"0">>, <<"1">> }] }

InitElements ==
    /\ call = "filterOSISVerseLine"
    /\ shape = "elements"
    /\ replacementList = <<>>
    /\ \E c \in ElementCases :
          /\ inputLine \in c.texts
          /\ argC \in c.Cs
          /\ argV \in c.Vs
    /\ globalDebugFlag \in BOOLEAN
    /\ result = NoResult
    /\ again = NoResult
    /\ IdlePairs
    /\ IdleLoad
    /\ IdleVerses
    /\ IdleUSX

\* a second call of the filter, on the text the first call returned
FilterOSISAgain ==
    /\ call = "filterOSISVerseLine"
    /\ result # NoResult /\ result.err = "none" /\ again = NoResult
    /\ again' = filterOSISVerseLine(result.line, "KJV", "GEN", argC, argV, globalDebugFlag)
    /\ UNCHANGED <<usxVars, rfpVars, call, shape, argC, argV, globalDebugFlag, result, loadVars, verseVars>>

NextElements == FilterOSIS \/ FilterOSISAgain

SpecElements == InitElements /\ [][NextElements]_vars

-----------------------------------------------------------------------------
(* The import wrappers: the outcome is [book, err], book the calls made on
   thisBook so far (addVerseSegments and addLine are not part of this module) *)

\* thisBook.addVerseSegments( V, verseLine, location )
AddVerseSegments(book, V, line) == Append(book, << "addVerseSegments", V, line >>)
\* the book left without the line
AddLineOmitted(book, marker, text) == book

\* thisBook.addLine( 'c', C )
AddLine(book, marker, text) == Append(book, << "addLine", marker, text >>)

\* the verse handed to the book whatever the text and V
OSISVerseToBookAlways(r, book, V) ==
    IF r.err # "none" THEN [book |-> book, err |-> r.err]
    ELSE [book |-> AddVerseSegments(book, V, r.line), err |-> "none"]

\* lines 771-774: r is what filterOSISVerseLine gave
OSISVerseToBook(r, book, V) ==
    IF r.err # "none" THEN [book |-> book, err |-> r.err]
    ELSE IF r.line # <<>> \/ V # <<"0">>
        THEN [book |-> AddVerseSegments(book, V, r.line), err |-> "none"]
    ELSE [book |-> book, err |-> "none"]

importOSISVerseLine(osisVerseString, book, moduleName, BBB, C, V, debugFlag) ==
    OSISVerseToBook(filterOSISVerseLine(osisVerseString, moduleName, BBB, C, V, debugFlag), book, V)

\* lines 940-942: r is what filterGBFVerseLine gave
GBFVerseToBook(r, book, V) ==
    IF r.err # "none" THEN [book |-> book, err |-> r.err]
    ELSE [book |-> AddVerseSegments(book, V, r.line), err |-> "none"]

importGBFVerseLine(gbfVerseString, book, moduleName, BBB, C, V, debugFlag) ==
    GBFVerseToBook(filterGBFVerseLine(gbfVerseString, moduleName, BBB, C, V, debugFlag), book, V)

\* line 1040 calls importTHMLVerseLine itself, with five arguments for six parameters
importTHMLVerseLine(thmlVerseString, book, moduleName, BBB, C, V, debugFlag) ==
    [book |-> book, err |-> "TypeError"]

-----------------------------------------------------------------------------
(* SwordInterface.loadBooks with SwordType = 'CrosswireLibrary' *)

\* range( 0, 999999 )
IndexLimit == 999999

\* module.getKey().getShortText(): a heading, or 'book chapter:verse'
Heading == [heading |-> TRUE]
VerseKey(BBB, c, V) == [heading |-> FALSE, BBB |-> BBB, C |-> c, V |-> V]

ModuleKeys ==
    << Heading, VerseKey("GEN", <<"0">>, <<"0">>), VerseKey("GEN", <<"1">>, <<"1">>),
       VerseKey("GEN", <<"1">>, <<"2">>), VerseKey("EXO", <<"1">>, <<"1">>) >>

\* module.getRawEntry() of a verse
VerseTexts == { <<>>, <<"a">>, <<"<","d","i","v"," ","t","y","p","e","=","\"","b","o","g","u","s","\"","/",">","a">>, <<"<","R","F",">","1","<","R","f",">">> }

Markups == { "FMT_OSIS", "FMT_GBF", "FMT_THML", "FMT_PLAIN" }

InitLoad ==
    /\ namesBound \in BOOLEAN
    /\ globalDebugFlag \in BOOLEAN
    /\ markupCode \in Markups
    /\ \E texts \in [1..Len(ModuleKeys) -> VerseTexts] :
          /\ \A k \in 1..Len(ModuleKeys) : ModuleKeys[k].heading => texts[k] = <<>>
          /\ module = [k \in 1..Len(ModuleKeys) |-> [key |-> ModuleKeys[k], text |-> texts[k]]]
    /\ index = 0 /\ currentBBB = "None" /\ currentC = <<>> /\ haveText = FALSE
    /\ thisBook = <<>> /\ bookCount = 0 /\ saved = <<>> /\ handed = <<>>
    /\ loadPc = "start" /\ loadErr = NoError
    /\ replacementList = <<>> /\ inputLine = <<>>
    /\ IdlePairs
    /\ IdleFilter
    /\ IdleVerses
    /\ IdleUSX

Raise(e) ==
    /\ loadPc' = "raised"
    /\ loadErr' = [index |-> index, err |-> e]

\* lines 1301-1324: the comparison with ENC_LATIN1 needs the name
LoadStart ==
    /\ loadPc = "start"
    /\ IF namesBound
          THEN /\ loadPc' = "loop"
               /\ UNCHANGED loadErr
          ELSE Raise("NameError")
    /\ UNCHANGED <<usxVars, rfpVars, filterVars, verseVars, namesBound, markupCode, module, index, currentBBB,
                   currentC, haveText, thisBook, bookCount, saved, handed>>

\* module.setIndex( index ) holds for the indexes of the module's entries
AtEntry == loadPc = "loop" /\ index < IndexLimit /\ index < Len(module)
Entry == module[index + 1]

\* lines 1345-1362: a key without ':' is skipped
LoadHeading ==
    /\ AtEntry
    /\ Entry.key.heading
    /\ index' = index + 1
    /\ UNCHANGED <<usxVars, rfpVars, filterVars, verseVars, namesBound, markupCode, module, currentBBB, currentC,
                   haveText, thisBook, bookCount, saved, handed, loadPc, loadErr>>

\* lines 1394-1399: the import function of the module's markup
ImportVerse(markup, text, book, BBB, C, V, debugFlag) ==
    IF markup = "FMT_OSIS" THEN importOSISVerseLine(text, book, "KJV", BBB, C, V, debugFlag)
    ELSE IF markup = "FMT_GBF" THEN importGBFVerseLine(text, book, "KJV", BBB, C, V, debugFlag)
    ELSE importTHMLVerseLine(text, book, "KJV", BBB, C, V, debugFlag)

\* lines 1392-1401: the entry's text goes to the import function, imported its outcome
HandVerse(imported) ==
    /\ handed' = Append(handed, index)
    /\ thisBook' = imported.book
    /\ IF imported.err # "none"
          THEN /\ Raise(imported.err)
               /\ UNCHANGED index
          ELSE /\ index' = index + 1
               /\ UNCHANGED <<loadPc, loadErr>>

\* lines 1363-1401: one verse entry
LoadVerse ==
    /\ AtEntry
    /\ ~Entry.key.heading
    /\ LET BBB == Entry.key.BBB
           V == Entry.key.V
           newBook == BBB # currentBBB
           book0 == IF newBook THEN <<>> ELSE thisBook
           C0 == IF newBook THEN <<"0">> ELSE currentC
           book1 == IF Entry.key.C # C0 THEN AddLine(book0, "c", Entry.key.C) ELSE book0
           known == markupCode \in { "FMT_OSIS", "FMT_GBF", "FMT_THML" }
       IN  IF newBook /\ currentBBB # "None" /\ haveText
              \* self.saveBook( thisBook ): SwordInterface has no saveBook
              THEN /\ Raise("AttributeError")
                   /\ UNCHANGED <<index, currentBBB, currentC, haveText, thisBook, bookCount,
                                  handed>>
           ELSE /\ currentBBB' = BBB
                /\ currentC' = Entry.key.C
                /\ bookCount' = IF newBook THEN bookCount + 1 ELSE bookCount
                /\ haveText' = IF Entry.text # <<>> THEN TRUE
                               ELSE IF newBook THEN FALSE ELSE haveText
                /\ IF Entry.text = <<>>
                      THEN /\ thisBook' = book1
                           /\ index' = index + 1
                           /\ UNCHANGED <<handed, loadPc, loadErr>>
                   ELSE IF ~known
                      THEN /\ thisBook' = book1
                           /\ IF globalDebugFlag THEN Raise("NameError")
                              ELSE loadPc' = "returned" /\ UNCHANGED loadErr
                           /\ UNCHANGED <<index, handed>>
                   ELSE HandVerse(ImportVerse(markupCode, Entry.text, book1, BBB, Entry.key.C,
                                              V, globalDebugFlag))
    /\ UNCHANGED <<usxVars, rfpVars, filterVars, verseVars, namesBound, markupCode, module, saved>>

\* lines 1327 and 1402-1404: past the last entry, the very last book is saved
LoadFinish ==
    /\ loadPc = "loop"
    /\ ~(index < IndexLimit /\ index < Len(module))
    /\ saved' = IF currentBBB # "None" /\ haveText
                   THEN Append(saved, [on |-> "BibleObject", BBB |-> currentBBB,
                                       book |-> thisBook])
                   ELSE saved
    /\ loadPc' = "returned"
    /\ UNCHANGED <<usxVars, rfpVars, filterVars, verseVars, namesBound, markupCode, module, index, currentBBB,
                   currentC, haveText, thisBook, bookCount, handed, loadErr>>

NextLoad == LoadStart \/ LoadHeading \/ LoadVerse \/ LoadFinish

SpecLoad == InitLoad /\ [][NextLoad]_vars

-----------------------------------------------------------------------------
(* The import functions called directly: one call on inputLine with a book
   that already holds the lines of thisBook; result.err names the exception
   the call raised, "none" when it returned *)

\* most tokens in the text of an import call
MaxImport == 2

OSISImportTokens == { <<"a">>, <<"<","/","v","e","r","s","e",">">>, segPair[1], segPair[3] }
GBFImportTokens == { <<"a">>, <<"<","F","I",">">>, <<"<","F","i",">">>, CallerToken(<<"1">>) }
THMLImportTokens == { <<"a">>, iPair[1], iPair[3], <<"<","b","r","/",">">> }

\* the book before the call: new, or with the 'c' line of its chapter
ImportBooks == { <<>>, AddLine(<<>>, "c", <<"1">>) }

ImportCases ==
    { [call |-> "importOSISVerseLine", texts |-> TextsOf(OSISImportTokens, MaxImport)],
      [call |-> "importGBFVerseLine", texts |-> TextsOf(GBFImportTokens, MaxImport)],
      [call |-> "importTHMLVerseLine", texts |-> TextsOf(THMLImportTokens, MaxImport)] }

InitImport ==
    /\ \E c \in ImportCases :
          /\ call = c.call
          /\ inputLine \in c.texts
    /\ shape = "import" /\ argC = <<"1">> /\ argV \in { <<"0">>, <<"1">> }
    /\ globalDebugFlag \in BOOLEAN
    /\ thisBook \in ImportBooks
    /\ result = NoResult /\ again = NoResult
    /\ replacementList = <<>>
    /\ namesBound = TRUE /\ markupCode = "none" /\ module = <<>> /\ index = 0
    /\ currentBBB = "None" /\ currentC = <<>> /\ haveText = FALSE
    /\ bookCount = 0 /\ saved = <<>> /\ handed = <<>> /\ loadPc = "idle" /\ loadErr = NoError
    /\ IdlePairs
    /\ IdleVerses
    /\ IdleUSX

\* the call ends: thisBook is as the call left it
Imported(outcome) ==
    /\ result = NoResult
    /\ thisBook' = outcome.book
    /\ result' = [err |-> outcome.err]
    /\ UNCHANGED <<usxVars, rfpVars, call, shape, argC, argV, globalDebugFlag, again, verseVars,
                   namesBound, markupCode, module, index, currentBBB, currentC, haveText,
                   bookCount, saved, handed, loadPc, loadErr>>

ImportOSIS ==
    /\ call = "importOSISVerseLine"
    /\ Imported(importOSISVerseLine(inputLine, thisBook, "KJV", "GEN", argC, argV, globalDebugFlag))

ImportGBF ==
    /\ call = "importGBFVerseLine"
    /\ Imported(importGBFVerseLine(inputLine, thisBook, "KJV", "GEN", argC, argV, globalDebugFlag))

ImportTHML ==
    /\ call = "importTHMLVerseLine"
    /\ Imported(importTHMLVerseLine(inputLine, thisBook, "KJV", "GEN", argC, argV, globalDebugFlag))

NextImport == ImportOSIS \/ ImportGBF \/ ImportTHML

SpecImport == InitImport /\ [][NextImport]_vars

-----------------------------------------------------------------------------
(* A run of verses: one filter called on verse after verse, as an import
   function calls it for each verse of a module *)

\* most verses in a run
MaxVerses == 3

\* runs of n verses over a set of verse texts
RECURSIVE RunsOf(_, _)
RunsOf(texts, n) ==
    IF n = 0 THEN { <<>> } ELSE { Append(r, t) : r \in RunsOf(texts, n - 1), t \in texts }

OSISVerses ==
    { <<"a">>, <<"<","h","i"," ","t","y","p","e","=","\"","i","t","a","l","i","c","\"",">","a","<","/","h","i",">">>, <<"<","h","i"," ","t","y","p","e","=","\"","x","\"",">","b","<","/","h","i",">">>, <<"<","q"," ","w","h","o","=","\"","J","e","s","u","s","\"",">","a","<","/","q",">">>, <<"<","q"," ","w","h","o","=","\"","x","\"",">","b","<","/","q",">">> }
GBFVerses ==
    { <<"a">>, CallerToken(<<"1">>), CallerToken(<<"1">>) \o <<"a">> \o CalleeSpan(<<"1">>, <<"b">>),
      CallerToken(<<"1">>) \o <<"a","<","R","F",">","a","b","<","R","f",">">>, CallerToken(<<"2">>) \o <<"a">> \o CalleeSpan(<<"1">>, <<"a"," ","2",")"," ","b">>) }
THMLVerses == { <<"a">>, <<"<","i",">","a","<","/","i",">">>, <<"<","i",">","a">>, <<"a","<","/","i",">">>, <<"<","b","r","/",">">> }

VerseCases ==
    { [call |-> "filterOSISVerseLine", lists |-> { <<>> }, texts |-> OSISVerses],
      [call |-> "filterGBFVerseLine", lists |-> { <<>> }, texts |-> GBFVerses],
      [call |-> "filterTHMLVerseLine", lists |-> { <<>> }, texts |-> THMLVerses],
      [call |-> "replaceFixedPairs", lists |-> { << iPair >> }, texts |-> THMLVerses] }

InitVerses ==
    /\ \E c \in VerseCases :
          /\ call = c.call
          /\ replacementList \in c.lists
          /\ verses \in RunsOf(c.texts, MaxVerses)
    /\ shape = "verses" /\ argC = <<"1">> /\ argV = <<"1">> /\ globalDebugFlag = FALSE
    /\ inputLine = <<>> /\ result = NoResult /\ again = NoResult
    /\ outputs = <<>> /\ contentsDict = <<>>
    /\ IdlePairs
    /\ IdleLoad
    /\ IdleUSX

\* the verse the next call is for
AtVerse == Len(outputs) < Len(verses)
Verse == verses[Len(outputs) + 1]

VerseOSIS ==
    /\ call = "filterOSISVerseLine" /\ AtVerse
    /\ outputs' = Append(outputs, filterOSISVerseLine(Verse, "KJV", "GEN", argC, argV, globalDebugFlag))
    /\ UNCHANGED <<usxVars, rfpVars, filterVars, loadVars, verses, contentsDict>>

\* contentsDict is a local of the call: line 801 makes it empty, the caller loop
\* fills it, and what it holds when the call ends is notes.dict
VerseGBFWith(notes) ==
    /\ outputs' = Append(outputs, GBFAfterNotes(notes, globalDebugFlag))
    /\ contentsDict' = notes.dict

VerseGBF ==
    /\ call = "filterGBFVerseLine" /\ AtVerse
    /\ VerseGBFWith(GBFNotes(Verse, "KJV"))
    /\ UNCHANGED <<usxVars, rfpVars, filterVars, loadVars, verses>>

VerseTHML ==
    /\ call = "filterTHMLVerseLine" /\ AtVerse
    /\ outputs' = Append(outputs, filterTHMLVerseLine(Verse, "KJV", "GEN", argC, argV, globalDebugFlag))
    /\ UNCHANGED <<usxVars, rfpVars, filterVars, loadVars, verses, contentsDict>>

VersePairs ==
    /\ call = "replaceFixedPairs" /\ AtVerse
    /\ outputs' = Append(outputs, replaceFixedPairs(replacementList, Verse))
    /\ UNCHANGED <<usxVars, rfpVars, filterVars, loadVars, verses, contentsDict>>

NextVerses == VerseOSIS \/ VerseGBF \/ VerseTHML \/ VersePairs

SpecVerses == InitVerses /\ [][NextVerses]_vars

-----------------------------------------------------------------------------
(* USXXMLBibleBook.load.  usxTree holds the children of the usx element, in
   document order: book, chapter and para elements (a para with text only, no
   verse, char or note inside it) and elements of another tag.  usx holds the
   locals of load and what it did to the book: the lines appended, the load
   errors, the priority errors, and the locals lastMarker and lastText, Unbound
   until a statement assigns them. *)

\* element.text of an element without text
None == << "None" >>

\* Globals.USFMMarkers.getNewlineMarkersList() of a small catalog
NewlineMarkers == { <<"p">>, <<"q">>, <<"q","1">>, <<"s">> }
\* the markers Globals.USFMMarkers.isInternalMarker accepts, of the same catalog
InternalMarkers == { <<"w","j">>, <<"v">> }

isNewlineMarker(marker) == marker \in NewlineMarkers
isInternalMarker(marker) == marker \in InternalMarkers

\* self.appendLine( marker, text )
appendLine(u, marker, text) == [u EXCEPT !.lines = Append(@, << marker, text >>)]
\* self.addPriorityError( priority, c, v, message )
addPriorityError(u, priority) ==
    [u EXCEPT !.priorityErrors = Append(@, << priority, u.c, u.v >>)]
\* loadErrors.append( message ): the message names the marker and the kind of error
addLoadError(u, kind, marker) == [u EXCEPT !.loadErrors = Append(@, << kind, marker >>)]

\* on to the next element of the tree
NextElement(u) == [u EXCEPT !.position = @ + 1]

\* an exception leaves load
USXRaised(u, e) == [u EXCEPT !.pc = "raised", !.err = e]

\* lines 269-270: the first newline marker, longest first, that USFMMarker starts
\* with; <<>> when there is none
TryMarker(USFMMarker) ==
    LET found == { t \in NewlineMarkers : StartsAt(USFMMarker, t, 0) }
    IN  IF found = {} THEN <<>>
        ELSE CHOOSE t \in found : \A other \in found : Len(other) <= Len(t)

\* lines 271-275 for the marker found.  lastMarker is a local of load that no
\* earlier statement assigns: reading it raises UnboundLocalError, a NameError.
\* text is None when the para has no text, and ' ' + None raises TypeError.
ChangeMarker(u, USFMMarker, tryMarker, text) ==
    IF u.lastMarker = Unbound THEN USXRaised(u, "NameError")
    ELSE IF text = None
        THEN USXRaised(IF u.lastMarker # <<>> THEN appendLine(u, u.lastMarker, u.lastText) ELSE u,
                       "TypeError")
    ELSE addLoadError([(IF u.lastMarker # <<>> THEN appendLine(u, u.lastMarker, u.lastText) ELSE u)
                          EXCEPT !.lastMarker = tryMarker,
                                 !.lastText = SliceFrom(USFMMarker, Len(tryMarker)) \o <<" ">> \o text],
                      "changed", USFMMarker)

\* lines 260-276: recorded is the state with the errors of lines 261-268 recorded
UnknownMarker(recorded, USFMMarker, text) ==
    IF TryMarker(USFMMarker) = <<>> THEN NextElement(recorded)
    ELSE NextElement(ChangeMarker(recorded, USFMMarker, TryMarker(USFMMarker), text))

\* most elements in a tree
MaxUSX == 3

USXTexts == { None, <<"a">> }

USXElements ==
    { [tag |-> "book", code |-> <<"G","E","N">>, text |-> None], [tag |-> "chapter", number |-> <<"1">>],
      [tag |-> "other"] }
    \cup { [tag |-> "para", style |-> m, text |-> t] :
              m \in { <<"p">>, <<"q","1">>, <<"w","j">>, <<"z","z">>, <<"p","a">>, <<"q","1","x">> }, t \in USXTexts }

RECURSIVE TreesOf(_)
TreesOf(n) ==
    IF n = 0 THEN { <<>> }
    ELSE TreesOf(n - 1) \cup { Append(t, e) : t \in { x \in TreesOf(n - 1) : Len(x) = n - 1 },
                                              e \in USXElements }

\* lines 173-181 ("assert( len ( self.tree ) )": the tree is not empty)
InitUSX ==
    /\ usxTree \in (TreesOf(MaxUSX) \ { <<>> })
    /\ usx = [pc |-> "loop", position |-> 0, c |-> <<"0">>, v |-> <<"0">>, lines |-> <<>>,
              loadErrors |-> <<>>, priorityErrors |-> <<>>, lastMarker |-> Unbound,
              lastText |-> Unbound, errorDictionary |-> <<>>, err |-> "none"]
    /\ usfm = [pc |-> "idle"]
    /\ replacementList = <<>> /\ inputLine = <<>> /\ globalDebugFlag = FALSE
    /\ IdlePairs
    /\ IdleFilter
    /\ IdleLoad
    /\ IdleVerses

\* "for element in self.tree:" is at an element
AtElement(tag) ==
    /\ usx.pc = "loop" /\ usx.position < Len(usxTree)
    /\ usxTree[usx.position + 1].tag = tag
Element == usxTree[usx.position + 1]

USXStep(u) ==
    /\ usx' = u
    /\ UNCHANGED <<usxTree, usfm, rfpVars, filterVars, loadVars, verseVars>>

\* lines 201-219
USXBook ==
    /\ AtElement("book")
    /\ USXStep(NextElement(appendLine(usx, <<"i","d">>,
                  IF Element.text # None /\ NotBlank(Element.text)
                     THEN Element.code \o <<" ">> \o Element.text ELSE Element.code)))

\* lines 220-237
USXChapter ==
    /\ AtElement("chapter")
    /\ USXStep(NextElement(appendLine([usx EXCEPT !.v = <<"0">>, !.c = Element.number],
                                      <<"c">>, Element.number)))

\* lines 238-243 and loadParagraph (lines 63-77) for a para without subelements
USXNewlinePara ==
    /\ AtElement("para") /\ isNewlineMarker(Element.style)
    /\ USXStep(NextElement(appendLine(usx, Element.style,
                  IF Element.text # None /\ NotBlank(Element.text) THEN Element.text ELSE <<>>)))

\* lines 244-259
USXInternalPara ==
    /\ AtElement("para") /\ ~isNewlineMarker(Element.style) /\ isInternalMarker(Element.style)
    /\ USXStep(NextElement(
          [addPriorityError(addLoadError(usx, "internal", Element.style), 97)
              EXCEPT !.lastText = <<"\\">> \o Element.style \o <<" ">>
                                     \o (IF Element.text = None THEN <<>> ELSE Element.text)]))

\* lines 260-276
USXUnknownPara ==
    /\ AtElement("para") /\ ~isNewlineMarker(Element.style) /\ ~isInternalMarker(Element.style)
    /\ USXStep(UnknownMarker(addPriorityError(addLoadError(usx, "unknown", Element.style), 100),
                             Element.style, Element.text))

\* lines 277-279
USXOther ==
    /\ AtElement("other")
    /\ USXStep(NextElement(addPriorityError(usx, 1)))

\* line 281, past the last element
USXFinish ==
    /\ usx.pc = "loop" /\ usx.position = Len(usxTree)
    /\ USXStep([usx EXCEPT !.pc = "returned", !.errorDictionary = usx.loadErrors])

NextUSX ==
    USXBook \/ USXChapter \/ USXNewlinePara \/ USXInternalPara \/ USXUnknownPara \/ USXOther
       \/ USXFinish

SpecUSX == InitUSX /\ [][NextUSX]_vars

-----------------------------------------------------------------------------
(* USFMMarkers: _USFMMarkersConverter.importDataToPython builds the
   dictionaries from the catalog, one entry of the XML tree per turn of its
   loop, and the methods of USFMMarkers answer from them.  A dictionary is a
   function on the set of its keys, a list a sequence. *)

\* most entries in a catalog
MaxMarkers == 2

\* the entries a catalog is made of: marker, numberable, level
MarkerEntries ==
    { [marker |-> m, numberableFlag |-> n, level |-> l] :
         m \in { <<"q">>, <<"q","1">>, <<"p">> }, n \in BOOLEAN, l \in { "Paragraph", "Character" } }

RECURSIVE CatalogsOf(_)
CatalogsOf(n) ==
    IF n = 0 THEN { <<>> }
    ELSE CatalogsOf(n - 1) \cup { Append(c, e) : c \in { x \in CatalogsOf(n - 1) : Len(x) = n - 1 },
                                                 e \in MarkerEntries }

\* raise KeyError
KeyError == << "KeyError" >>

\* theDict[key] = value
DictSet(theDict, key, value) ==
    [k \in DOMAIN theDict \cup { key } |-> IF k = key THEN value ELSE theDict[k]]

\* the suffix digits of line 277
Suffixes == { <<"1">>, <<"2">>, <<"3">> }

\* lines 278-279 for the three suffixes: the keys marker+suffix all map to marker
WithNumbered(theDict, marker) ==
    [k \in DOMAIN theDict \cup { marker \o x : x \in Suffixes } |->
        IF k \in { marker \o x : x \in Suffixes } THEN marker ELSE theDict[k]]

\* lines 275-279
Numbered(dicts, entry) ==
    [dicts EXCEPT !.conversionDict = DictSet(@, entry.marker, entry.marker \o <<"1">>),
                  !.backConversionDict = WithNumbered(@, entry.marker),
                  !.adjustedMarkerDict = WithNumbered(@, entry.marker)]

\* lines 250-251 and 272-274
Entered(dicts, entry) ==
    [dicts EXCEPT !.rawMarkerDict = DictSet(@, entry.marker, entry),
                  !.adjustedMarkerDict = DictSet(@, entry.marker, entry.marker),
                  !.paragraphMarkersList =
                      IF entry.level = "Paragraph" THEN Append(@, entry.marker) ELSE @,
                  !.characterMarkersList =
                      IF entry.level = "Character" THEN Append(@, entry.marker) ELSE @]

\* lines 269-279 for one entry
ImportEntry(dicts, entry) ==
    IF entry.numberableFlag THEN Numbered(Entered(dicts, entry), entry)
    ELSE Entered(dicts, entry)

InList(marker, list) == \E i \in 1..Len(list) : list[i] = marker

\* the methods of USFMMarkers, dicts being self.__DataDicts
isValidMarker(dicts, marker) == marker \in DOMAIN dicts.adjustedMarkerDict

getRawMarker(dicts, marker) ==
    IF marker \in DOMAIN dicts.adjustedMarkerDict THEN dicts.adjustedMarkerDict[marker]
    ELSE KeyError

getStandardMarker(dicts, marker) ==
    IF marker \in DOMAIN dicts.conversionDict THEN dicts.conversionDict[marker]
    ELSE IF marker \in DOMAIN dicts.adjustedMarkerDict THEN marker
    ELSE KeyError

isParagraphMarker(dicts, marker) == InList(getRawMarker(dicts, marker), dicts.paragraphMarkersList)
isCharacterMarker(dicts, marker) == InList(getRawMarker(dicts, marker), dicts.characterMarkersList)

EmptyDicts ==
    [rawMarkerDict |-> <<>>, adjustedMarkerDict |-> <<>>, conversionDict |-> <<>>,
     backConversionDict |-> <<>>, paragraphMarkersList |-> <<>>, characterMarkersList |-> <<>>]

\* lines 233-238 ("assert( self._XMLtree )": the tree has entries)
InitMarkers ==
    /\ usfm \in { [pc |-> "import", catalog |-> c, position |-> 0, dicts |-> EmptyDicts,
                   marker |-> <<>>, standard |-> <<>>, raw |-> <<>>] :
                     c \in (CatalogsOf(MaxMarkers) \ { <<>> }) }
    /\ usxTree = <<>> /\ usx = [pc |-> "idle"]
    /\ replacementList = <<>> /\ inputLine = <<>> /\ globalDebugFlag = FALSE
    /\ IdlePairs
    /\ IdleFilter
    /\ IdleLoad
    /\ IdleVerses

MarkersStep(u) ==
    /\ usfm' = u
    /\ UNCHANGED <<usxTree, usx, rfpVars, filterVars, loadVars, verseVars>>

\* one turn of "for element in self._XMLtree" (lines 239-279); the assertion of
\* line 271 fails for a marker the catalog has twice
ImportMarker ==
    /\ usfm.pc = "import" /\ usfm.position < Len(usfm.catalog)
    /\ LET entry == usfm.catalog[usfm.position + 1]
       IN  IF entry.marker \in DOMAIN usfm.dicts.rawMarkerDict
              THEN MarkersStep([usfm EXCEPT !.pc = "raised"])
              ELSE MarkersStep([usfm EXCEPT !.position = @ + 1,
                                            !.dicts = ImportEntry(usfm.dicts, entry)])

\* lines 283-286, and USFMMarkers.loadData line 509
LoadData ==
    /\ usfm.pc = "import" /\ usfm.position = Len(usfm.catalog)
    /\ MarkersStep([usfm EXCEPT !.pc = "loaded"])

\* getStandardMarker and getRawMarker asked for a valid marker
QueryMarker ==
    /\ usfm.pc = "loaded"
    /\ \E m \in DOMAIN usfm.dicts.adjustedMarkerDict :
          MarkersStep([usfm EXCEPT !.pc = "queried", !.marker = m,
                                   !.standard = getStandardMarker(usfm.dicts, m),
                                   !.raw = getRawMarker(usfm.dicts, m)])

NextMarkers == ImportMarker \/ LoadData \/ QueryMarker

SpecMarkers == InitMarkers /\ [][NextMarkers]_vars

-----------------------------------------------------------------------------
(* Properties of replaceFixedPairs (SpecPairs) *)

CurrentPair == replacementList[pairIx]
Returned == rfpPc = "done"

EndsWith(s, t) == Len(t) <= Len(s) /\ SliceFrom(s, Len(s) - Len(t)) = t

\* the buffer with the open token at 0-based index i rewritten
OpenRewrittenAt(line, pair, i) ==
    Slice(line, 0, i) \o pair[2] \o SliceFrom(line, i + Len(pair[1]))

\* C3: for a single pair and a text holding a bare close token and no open token
\* (the text starting with plain content, with the close token, or with the
\* paragraph marker '\p '), the returned text has an intact newCloseCode in place
\* of the close token, followed by the unchanged rest of the text, and newOpenCode
\* stands at the start of the text, after the leading '\p ' if there is one and
\* before all other content (at most the one separating blank precedes it).
LeadLen(text) == IF StartsAt(text, <<"\\","p"," ">>, 0) THEN 3 ELSE 0

C3_Case ==
    /\ Len(replacementList) = 1
    /\ ~Contains(inputLine, CurrentPair[1])
    /\ Contains(inputLine, CurrentPair[3])
    /\ (inputLine[1] # "\\" \/ StartsAt(inputLine, <<"\\","p"," ">>, 0))

C3_CrossBoundaryClose ==
    (C3_Case /\ rfpPc # "open") =>
        LET pair == CurrentPair
            c == Find(inputLine, pair[3], 0)
            rest == SliceFrom(inputLine, c + Len(pair[3]))
            p == Find(verseLine, pair[2], 0)
        IN  /\ Returned
            /\ EndsWith(verseLine, pair[4] \o rest)
            /\ p # -1
            /\ p <= LeadLen(inputLine) + 1
            /\ p + Len(pair[2]) <= Len(verseLine) - Len(pair[4] \o rest)

\* C4: in every pass through the open loop, the close token rewritten is the
\* first close token after the open token being processed: the text before the
\* open token is left as it was, and when no close token follows the open token
\* newCloseCode is appended instead.
C4_Expected(line, pair, i) ==
    LET l1 == OpenRewrittenAt(line, pair, i)
        e == Find(l1, pair[3], i)
    IN  IF e = -1 THEN l1 \o pair[4]
        ELSE Slice(l1, 0, e) \o pair[4] \o SliceFrom(l1, e + Len(pair[3]))

C4_CloseAfterOpen ==
    [][(rfpPc = "open" /\ ix # -1) => verseLine' = C4_Expected(verseLine, CurrentPair, ix)]_vars

\* C5: when a missing open marker is inserted into a buffer that begins with
\* k >= 0 blank-terminated backslash markers followed by other content, it is
\* inserted after all k of them (at the blank that ends the last one, or just
\* after it), and at position zero when k = 0.
IsMarkerAt(line, i) ==
    /\ i < Len(line)
    /\ line[i + 1] = "\\"
    /\ \E s \in (i + 2)..(Len(line) - 1) :
          /\ line[s + 1] = " "
          /\ \A k \in (i + 1)..(s - 1) : line[k + 1] \notin {" ", "\\"}

MarkerEnd(line, i) ==
    MinOf({ s \in (i + 2)..(Len(line) - 1) : line[s + 1] = " " })

\* 0-based index of the blank that ends the last leading marker (0 if none)
RECURSIVE LeadEnd(_, _)
LeadEnd(line, i) ==
    LET from == IF i = 0 THEN 0 ELSE i + 1
    IN  IF IsMarkerAt(line, from) THEN LeadEnd(line, MarkerEnd(line, from)) ELSE i

ClearLead(line) ==
    LET e == LeadEnd(line, 0)
        next == IF e = 0 THEN 0 ELSE e + 1
    IN  next >= Len(line) \/ line[next + 1] # "\\"

C5_InsertAfterLeadingMarkers ==
    [][(rfpPc = "open" /\ ix = -1 /\ Contains(verseLine, CurrentPair[3])) =>
          LET l1 == ReplaceFirst(verseLine, CurrentPair[3], CurrentPair[4])
              e == LeadEnd(l1, 0)
          IN  (l1 # <<>> /\ ClearLead(l1)) =>
                 \E at \in {e, IF e = 0 THEN 0 ELSE e + 1} :
                    verseLine' = Slice(l1, 0, at) \o <<" ">> \o CurrentPair[2] \o SliceFrom(l1, at)
    ]_vars

\* C6: a pass through the open loop for an open token with no close token after
\* it rewrites that open token, appends exactly one newCloseCode to the buffer,
\* logs one 'Missing close' error naming the two tokens, and the loop goes on
\* with the next open token.
C6_MissingCloseAppended ==
    [][(/\ rfpPc = "open"
        /\ ix # -1
        /\ Find(verseLine, CurrentPair[3], ix + Len(CurrentPair[1])) = -1) =>
          /\ verseLine' = OpenRewrittenAt(verseLine, CurrentPair, ix) \o CurrentPair[4]
          /\ log' = Append(log, [kind |-> "Missing", closeCode |-> CurrentPair[3],
                                 openCode |-> CurrentPair[1]])
          /\ rfpPc' = "open"
          /\ pairIx' = pairIx
          /\ (ix' = -1 \/ StartsAt(verseLine', CurrentPair[1], ix'))
    ]_vars

\* C9: pairs are applied in list order: the for loop never goes back and moves
\* on to the next pair only when the open loop of the current pair has ended, and
\* with filterGBFVerseLine's list '<FO><FO>' t '<Fo><Fo>' (t plain) is returned as
\* '\NL**\d ' t '\NL**' with nothing logged, never as nested '\em' pairs.
C9_TableOrder ==
    /\ [](\A t \in {<<>>, <<"a">>, <<"a","a">>} :
            (Returned /\ replacementList = GBFReplacementList
                 /\ inputLine = <<"<","F","O",">","<","F","O",">">> \o t \o <<"<","F","o",">","<","F","o",">">>) =>
               (verseLine = <<"\\","N","L","*","*","\\","d"," ">> \o t \o <<"\\","N","L","*","*">> /\ log = <<>>))
    /\ [][/\ pairIx' \in {pairIx, pairIx + 1}
          /\ (pairIx' = pairIx + 1 => ix = -1)
          /\ (rfpPc' = "done" => (pairIx = Len(replacementList) /\ ix = -1))]_vars

C9_Witness ==
    /\ Returned
    /\ replacementList = GBFReplacementList
    /\ inputLine = <<"<","F","O",">","<","F","O",">","a","<","F","o",">","<","F","o",">">>
    /\ verseLine = <<"\\","N","L","*","*","\\","d"," ","a","\\","N","L","*","*">>

\* C24: replaceFixedPairs is total: whatever the text (the empty text, a text
\* left empty once a close token with an empty replacement is removed, a text of
\* backslash marker characters without a blank), the call never leaves with an
\* index error from the scan for the insertion point.
C24_NeverIndexError == rfpPc # "raised"

-----------------------------------------------------------------------------
(* Properties of the dialect filters (SpecFilter, SpecElements) *)

IsFilterCall ==
    call \in { "filterOSISVerseLine", "filterGBFVerseLine", "filterTHMLVerseLine" }

\* the call returned a string to its caller
FilterReturned == result.err = "none"

\* C1: whenever filterOSISVerseLine, filterGBFVerseLine or filterTHMLVerseLine
\* returns a string to its caller, that string holds neither '<' nor '>'.
C1_NoAnglesReturned == (IsFilterCall /\ FilterReturned) => ~HasAngle(result.line)

\* C7: for each dialect and every well-formed text built only from plain text and
\* tag pairs of that dialect's pair table, the text the filter returns holds
\* neither '<' nor '>'.
C7_NoMarkupLeak ==
    (IsFilterCall /\ shape = "wellformed" /\ FilterReturned) => ~HasAngle(result.line)

\* C8: for plain content wrapped in one matched pair, replaceFixedPairs with that
\* pair, and filterOSISVerseLine, return exactly newOpenCode + content +
\* newCloseCode: nothing inserted or appended, nothing logged, no angle bracket left.
C8_ForwardCase ==
    \A p \in AllOSISPairs, content \in PlainContents :
        (/\ shape = "wrapped"
         /\ inputLine = Wrap(p, content)
         /\ call = "replaceFixedPairs" => replacementList = << p >>
         /\ result # NoResult)
        => /\ result = [line |-> p[2] \o content \o p[4], err |-> "none", log |-> <<>>]
           /\ ~HasAngle(result.line)

C8_Witness ==
    /\ call = "filterOSISVerseLine"
    /\ inputLine = <<"<","d","i","v","i","n","e","N","a","m","e",">","L","O","R","D","<","/","d","i","v","i","n","e","N","a","m","e",">">>
    /\ result = [line |-> <<"\\","n","d"," ","L","O","R","D","\\","n","d","*">>, err |-> "none", log |-> <<>>]

\* C10: when a caller token '<RF>n<Rf>' occurs, its callee 'n) text' follows and
\* the same caller token occurs again later in the verse, filterGBFVerseLine
\* returns the verse with both caller tokens replaced by '\f + \ft text\f*' and
\* the callee span removed, the rest of the text as it was.
C10_RepeatReference ==
    \A pre \in { <<>>, <<"a">> }, mid \in { <<>>, <<"a">> }, post \in { <<>>, <<"a">> } :
        (/\ call = "filterGBFVerseLine"
         /\ inputLine = pre \o CallerToken(<<"1">>) \o mid \o CalleeSpan(<<"1">>, <<"a">>) \o post
                            \o CallerToken(<<"1">>)
         /\ result # NoResult)
        => /\ result.err = "none"
           /\ result.line = pre \o FootnoteMarker(<<"a">>) \o mid \o post \o FootnoteMarker(<<"a">>)

\* C11: when a callee span holds several numbered segments 'k1) c1 k2) c2', the
\* splitting loop ends with one contentsDict entry per segment, ki mapped to ci,
\* and the whole span consumed: filterGBFVerseLine returns the verse with each
\* caller token ki replaced by '\f + \ft ci\f*' and the callee span removed.
C11_ConcatenatedCallees ==
    \A texts \in { << CallerToken(<<"1">>), <<"a">>, CalleeSpan(<<"1">>, <<"a"," ","2",")"," ","b">>), CallerToken(<<"2">>) >>,
                   << CallerToken(<<"1">>), CallerToken(<<"2">>), <<"a">>, CalleeSpan(<<"1">>, <<"a"," ","2",")"," ","b">>) >> } :
        (/\ call = "filterGBFVerseLine"
         /\ inputLine = texts[1] \o texts[2] \o texts[3] \o texts[4]
         /\ result # NoResult)
        => /\ result.err = "none"
           /\ result.line = ReplaceAll(ReplaceAll(ReplaceAll(inputLine,
                                           CalleeSpan(<<"1">>, <<"a"," ","2",")"," ","b">>), <<>>),
                                       CallerToken(<<"1">>), FootnoteMarker(<<"a">>)),
                                   CallerToken(<<"2">>), FootnoteMarker(<<"b">>))

\* C12: when a numbered caller '<RF>n<Rf>' has no numbered callee and the only
\* callee is an unnumbered span '<RF>text<Rf>', filterGBFVerseLine takes the whole
\* span text as the caller's content, replaces the caller by '\f + \ft text\f*'
\* and removes the span when n is '1', and raises for any other n.
C12_UnnumberedCallee ==
    \A n \in { <<"1">>, <<"2">> }, text \in { <<"a">>, <<"a","b">> } :
        (/\ call = "filterGBFVerseLine"
         /\ inputLine = CallerToken(n) \o <<"a">> \o <<"<","R","F",">">> \o text \o <<"<","R","f",">">>
         /\ result # NoResult)
        => IF n = <<"1">>
              THEN /\ result.err = "none"
                   /\ result.line = FootnoteMarker(text) \o <<"a">>
           ELSE result.err # "none"

\* C13: for each dialect filter and every input, when the filter returns y,
\* the same filter called on y with the same moduleName, BBB, C and V returns y.
C13_Idempotent ==
    (IsFilterCall /\ again # NoResult) => (again.err = "none" /\ again.line = result.line)

\* C15: when a word tag holds an attribute that is none of savlm, lemma, morph,
\* type, subType, src and wn, so that text is left in the attribute string after
\* the extraction, filterOSISVerseLine raises for that verse, whatever the debug
\* flags are; the residue is never dropped silently.
C15_AttributeResidue ==
    (/\ call = "filterOSISVerseLine"
     /\ shape = "elements"
     /\ Contains(inputLine, <<"<","w"," ","f","o","o","=","\"","b","a","r","\"",">","a","<","/","w",">">>)
     /\ result # NoResult)
    => result.err # "none"

\* the text of the call is the text of one element
OSISElementCall(element) ==
    /\ call = "filterOSISVerseLine"
    /\ shape = "elements"
    /\ inputLine = element
    /\ result # NoResult

\* C16: the marker of a '<hi attrs>words</hi>' comes from the style of that
\* element alone (italic -> it, bold -> bd, ...), and an element with any other
\* style makes filterOSISVerseLine raise: it is never rewritten with the marker an
\* earlier rewrite left.
C16_OwnStyleOnly ==
    /\ OSISElementCall(<<"<","h","i"," ","t","y","p","e","=","\"","i","t","a","l","i","c","\"",">","a","<","/","h","i",">">>) => result.line = <<"\\","i","t"," ","a","\\","i","t","*">>
    /\ OSISElementCall(<<"<","h","i"," ","t","y","p","e","=","\"","b","o","l","d","\"",">","a","<","/","h","i",">">>) => result.line = <<"\\","b","d"," ","a","\\","b","d","*">>
    /\ (/\ call = "filterOSISVerseLine"
        /\ shape = "elements"
        /\ Contains(inputLine, <<"<","h","i"," ","t","y","p","e","=","\"","x","\"",">","b","<","/","h","i",">">>)
        /\ result # NoResult)
       => result.err # "none"

\* the number of places where t occurs in s
Occurrences(s, t) == Cardinality({ i \in 0..Len(s) : StartsAt(s, t, i) })

\* C17: a '<q attrs>words</q>' with who="Jesus" is rewritten to '\wj words\wj*';
\* one without it is rewritten too, from that element alone: the filter returns,
\* the words of the element are in the returned text exactly once, and the words
\* of an element rewritten before it are not repeated.
C17_QuoteFromElementAlone ==
    /\ OSISElementCall(<<"<","q"," ","w","h","o","=","\"","J","e","s","u","s","\"",">","a","<","/","q",">">>) => result.line = <<"\\","w","j"," ","a","\\","w","j","*">>
    /\ \A first \in { <<>>, <<"<","q"," ","w","h","o","=","\"","J","e","s","u","s","\"",">","a","<","/","q",">">>, <<"<","w"," ","l","e","m","m","a","=","\"","s","t","r","o","n","g",":","G","1","\"","/",">">> } :
          OSISElementCall(first \o <<"<","q"," ","w","h","o","=","\"","x","\"",">","b","<","/","q",">">>)
             => /\ result.err = "none"
                /\ Occurrences(result.line, <<"b">>) = 1
                /\ Occurrences(result.line, <<"a">>) = Occurrences(first, <<">","a","<">>)

\* C18: '<w attrs>words</w>' is rewritten to the words, unchanged, followed by
\* one '\str X\str*' for every strong: code of the savlm and lemma attributes, in
\* their order within the attribute, and one '\morph M\morph*' for every
\* strongMorph: code of the morph attribute: no code is dropped, duplicated or
\* reordered.
C18_EveryCodeOnce ==
    /\ OSISElementCall(<<"<","w"," ","l","e","m","m","a","=","\"","s","t","r","o","n","g",":","G","1"," ","s","t","r","o","n","g",":","G","2","\""," ","m","o","r","p","h","=","\"","s","t","r","o","n","g","M","o","r","p","h",":","T","H","8","\"",">","a","<","/","w",">">>)
          => result.line = <<"a","\\","s","t","r"," ","G","1","\\","s","t","r","*","\\","s","t","r"," ","G","2","\\","s","t","r","*","\\","m","o","r","p","h"," ","T","H","8","\\","m","o","r","p","h","*">>
    /\ OSISElementCall(<<"<","w"," ","s","a","v","l","m","=","\"","s","t","r","o","n","g",":","H","3","\""," ","l","e","m","m","a","=","\"","s","t","r","o","n","g",":","G","1","\"",">","a","<","/","w",">">>)
          => result.line = <<"a","\\","s","t","r"," ","H","3","\\","s","t","r","*","\\","s","t","r"," ","G","1","\\","s","t","r","*">>
    /\ OSISElementCall(<<"<","w"," ","l","e","m","m","a","=","\"","\""," ","m","o","r","p","h","=","\"","s","t","r","o","n","g","M","o","r","p","h",":","T","H","1","\"",">","a","<","/","w",">">>)
          => result.line = <<"a","\\","m","o","r","p","h"," ","T","H","1","\\","m","o","r","p","h","*">>

\* C19: every pass is applied until nothing it handles is left: when the
\* x-importer milestone, the left-over div/title start or the left-over
\* list-item start occurs twice in a verse, the filter returns and neither
\* occurrence is left in the returned text.
C19_NoSecondOccurrenceLeft ==
    \A element \in { <<"<","m","i","l","e","s","t","o","n","e"," ","t","y","p","e","=","\"","x","-","i","m","p","o","r","t","e","r","\""," ","s","u","b","T","y","p","e","=","\"","x","-","o","s","i","s","2","m","o","d","\""," ","n","=","\"","$","R","e","v",":"," ","1"," ","$","\"","/",">">>,
                     <<"<","d","i","v"," ","t","y","p","e","=","\"","s","e","c","t","i","o","n","\"","/",">","<","t","i","t","l","e",">">>,
                     <<"<","i","t","e","m"," ","t","y","p","e","=","\"","x","-","i","n","d","e","n","t","-","1","\"",">">> } :
        OSISElementCall(element \o element)
           => /\ result.err = "none"
              /\ ~ Contains(result.line, <<"<","m","i","l","e","s","t","o","n","e">>)
              /\ ~ Contains(result.line, <<"<","t","i","t","l","e">>)
              /\ ~ Contains(result.line, <<"<","i","t","e","m">>)

\* C20: a div of type "paragraph" is rewritten to '\NL**\ip ' if and only if the
\* chapter C of the call is '0', and to '\NL**\p\NL**' for any other chapter,
\* whatever V and the rest of the verse are: the returned text holds a marker of
\* the kind C selects for every paragraph div of the verse and none of the other
\* kind, and no further marker of the selected kind unless the verse has a quote
\* of another speaker, which is rewritten with the replacement of an earlier pass.
C20_ParagraphByChapter ==
    (/\ call = "filterOSISVerseLine" /\ shape = "elements"
     /\ result # NoResult /\ result.err = "none")
       => LET divs == Occurrences(inputLine, <<"<","d","i","v"," ","t","y","p","e","=","\"","p","a","r","a","g","r","a","p","h","\"","/",">">>)
              intro == Occurrences(result.line, <<"\\","N","L","*","*","\\","i","p"," ">>)
              body == Occurrences(result.line, <<"\\","N","L","*","*","\\","p","\\","N","L","*","*">>)
              selected == IF argC = <<"0">> THEN intro ELSE body
              other == IF argC = <<"0">> THEN body ELSE intro
          IN  /\ other = 0
              /\ selected >= divs
              /\ ~ Contains(inputLine, <<"<","q"," ","w","h","o","=","\"","x","\"",">">>) => selected = divs

\* a paragraph div in front of a word, filtered for chapter 0 and verse 1
C20_Witness ==
    /\ OSISElementCall(<<"<","d","i","v"," ","t","y","p","e","=","\"","p","a","r","a","g","r","a","p","h","\"","/",">","a">>)
    /\ argC = <<"0">> /\ argV = <<"1">>
    /\ result.err = "none" /\ result.line = <<"\\","N","L","*","*","\\","i","p"," ","a">>

-----------------------------------------------------------------------------
(* Properties of SwordInterface.loadBooks (SpecLoad) *)

\* the exception that left loadBooks came out of a dialect filter
FilterFailed ==
    /\ loadPc = "raised"
    /\ markupCode \in { "FMT_OSIS", "FMT_GBF" }
    /\ handed # <<>>
    /\ handed[Len(handed)] = loadErr.index

\* C2: when one verse makes its dialect filter fail fatally, the failure stays
\* with that verse: every later verse entry that has text is still handed to the
\* import function, and the book is saved.
C2_FatalContainment ==
    FilterFailed =>
        /\ \A i \in (loadErr.index + 1)..(Len(module) - 1) :
              (~module[i + 1].key.heading /\ module[i + 1].text # <<>>)
                  => \E k \in 1..Len(handed) : handed[k] = i
        /\ saved # <<>>

\* the chapter tracker a verse entry meets: '0' when its book is new
ChapterTracker == IF Entry.key.BBB # currentBBB THEN <<"0">> ELSE currentC

\* the book a verse entry meets: empty when its book is new
BookMet == IF Entry.key.BBB # currentBBB THEN <<>> ELSE thisBook

\* a step of loadBooks that is done with a verse entry and goes on to the next
VerseDone == loadPc = "loop" /\ AtEntry /\ ~Entry.key.heading /\ index' = index + 1

\* the lines the step added to the book the entry met
LinesAdded == SubSeq(thisBook', Len(BookMet) + 1, Len(thisBook'))

-----------------------------------------------------------------------------
(* Properties of the import functions (SpecImport) *)

\* the import call on inputLine has ended
ImportEnded(name) == call = name /\ shape = "import" /\ result # NoResult

\* the book the call started with: the lines of thisBook that are not verse segments
BookBefore == SelectSeq(thisBook, LAMBDA entry : entry[1] = "addLine")

\* C21: importTHMLVerseLine filters the text with the THML filter and calls
\* thisBook.addVerseSegments exactly once, with V and the filtered text; it
\* returns normally whenever the filter does.
C21_THMLVerseAdded ==
    ImportEnded("importTHMLVerseLine")
       => LET filtered == filterTHMLVerseLine(inputLine, "KJV", "GEN", argC, argV, globalDebugFlag)
          IN  filtered.err = "none"
                 => /\ result.err = "none"
                    /\ thisBook = AddVerseSegments(BookBefore, argV, filtered.line)

-----------------------------------------------------------------------------
(* Properties of a run of verses (SpecVerses) *)

-----------------------------------------------------------------------------
(* Properties of USXXMLBibleBook.load (SpecUSX) *)

\* the para elements of the tree whose style is neither a newline marker nor an
\* internal marker
UnknownParas ==
    { i \in 1..Len(usxTree) :
         /\ usxTree[i].tag = "para"
         /\ ~isNewlineMarker(usxTree[i].style) /\ ~isInternalMarker(usxTree[i].style) }

\* the lines of the book hold text under marker
StoredUnder(marker, text) ==
    \E i \in 1..Len(usx.lines) :
       /\ usx.lines[i][1] = marker
       /\ EndsWith(usx.lines[i][2], text)

\* C23: a para whose style is an unknown marker is recoverable: load does not
\* raise, and once it has returned every element has been processed, each
\* unknown para has its load error and its priority-100 error recorded, and the
\* text of an unknown para whose marker begins with a newline marker is in the
\* lines of the book under that newline marker.
C23_UnknownMarkerRecoverable ==
    /\ usx.pc # "raised"
    /\ usx.pc = "returned"
          => /\ usx.position = Len(usxTree)
             /\ \A i \in UnknownParas :
                   /\ \E e \in 1..Len(usx.errorDictionary) :
                         usx.errorDictionary[e] = << "unknown", usxTree[i].style >>
                   /\ \E e \in 1..Len(usx.priorityErrors) : usx.priorityErrors[e][1] = 100
                   /\ (TryMarker(usxTree[i].style) # <<>> /\ usxTree[i].text # None)
                         => StoredUnder(TryMarker(usxTree[i].style), usxTree[i].text)

-----------------------------------------------------------------------------
(* Properties of replaceFixedPairs: what a processed pair leaves (SpecPairs) *)

\* C25: once replaceFixedPairs has processed a pair, no close token of that pair
\* is left in the text, however many bare close tokens the text had, and for a
\* one-pair table with distinct markers the returned text has gained as many
\* newOpenCode as newCloseCode.
C25_NoCloseTokenLeft ==
    /\ [][(rfpPc = "open" /\ ix = -1 /\ rfpPc' # "raised")
             => ~Contains(verseLine', CurrentPair[3])]_vars
    /\ []((Returned /\ Len(replacementList) = 1 /\ CurrentPair[2] # CurrentPair[4])
             => Occurrences(verseLine, CurrentPair[2]) - Occurrences(inputLine, CurrentPair[2])
                   = Occurrences(verseLine, CurrentPair[4]) - Occurrences(inputLine, CurrentPair[4]))

\* the pairs whose tokens are single tags
TagPairs == { segPair, divineNamePair, iPair, GBFReplacementList[1], GBFReplacementList[3] }

\* the tags of line from index i on are properly nested, stack holding the pairs
\* opened and not yet closed
RECURSIVE WellNestedFrom(_, _, _)
WellNestedFrom(line, i, stack) ==
    LET hits == { k \in i..(Len(line) - 1) :
                     \E p \in TagPairs : StartsAt(line, p[1], k) \/ StartsAt(line, p[3], k) }
        k == MinOf(hits)
        opened == { p \in TagPairs : StartsAt(line, p[1], k) }
        closed == { p \in TagPairs : StartsAt(line, p[3], k) }
    IN  IF hits = {} THEN stack = <<>>
        ELSE IF opened # {}
            THEN WellNestedFrom(line, k + Len((CHOOSE p \in opened : TRUE)[1]),
                                Append(stack, CHOOSE p \in opened : TRUE))
        ELSE /\ stack # <<>>
             /\ stack[Len(stack)] \in closed
             /\ WellNestedFrom(line, k + Len(stack[Len(stack)][3]),
                               SubSeq(stack, 1, Len(stack) - 1))

WellNested(line) == WellNestedFrom(line, 0, <<>>)

\* C26: on a well-formed text (every open tag of the table closed by its close
\* tag, properly nested) replaceFixedPairs repairs nothing: it logs neither a
\* missing nor an unexpected close, so appends no close marker and inserts no
\* open marker, and it returns; this also where the tokens of one pair contain
\* those of another ('<seg><divineName>' and '<seg>', '<divineName>').
C26_WellFormedNoRepair ==
    WellNested(inputLine) => (log = <<>> /\ rfpPc # "raised")

\* C27: replaceFixedPairs terminates on every text: every pass through the open
\* loop of a pair leaves fewer open tokens of that pair in the text than it
\* found, so the loop ends after as many passes as the text has open tokens,
\* and the scan for the insertion point stops inside the text, so the call
\* goes on to the next pair or returns.
C27_Terminates ==
    /\ [][(rfpPc = "open" /\ ix # -1)
             => Occurrences(verseLine', CurrentPair[1]) < Occurrences(verseLine, CurrentPair[1])]_vars
    /\ [](rfpPc # "raised")

-----------------------------------------------------------------------------
(* Properties of the footnote pass of filterGBFVerseLine (SpecFilter) *)

\* C28: filterGBFVerseLine never reads contentsDict for an id it does not hold:
\* whatever the callers and callees of the verse (a caller whose id no callee
\* defines, such as caller 2 with the callee '1) a', or a callee ahead of its
\* caller), the call does not end with a failed lookup or a failed assertion,
\* and when it returns no numbered caller token is left in the text.
C28_MapNeverMisread ==
    (call = "filterGBFVerseLine" /\ shape = "notes" /\ result # NoResult)
       => /\ result.err \notin { "KeyError", "AssertionError" }
          /\ result.err = "none"
                => \A n \in { <<"1">>, <<"2">> } : ~Contains(result.line, CallerToken(n))

-----------------------------------------------------------------------------
(* Properties of importOSISVerseLine and importGBFVerseLine (SpecImport) *)

\* what the filter of the import function called gives for inputLine
FilteredVerse ==
    IF call = "importOSISVerseLine"
       THEN filterOSISVerseLine(inputLine, "KJV", "GEN", argC, argV, globalDebugFlag)
       ELSE filterGBFVerseLine(inputLine, "KJV", "GEN", argC, argV, globalDebugFlag)

\* the verse as the one call of addVerseSegments records it
VerseCall(filtered) == << "addVerseSegments", argV, filtered.line >>

\* C29: importOSISVerseLine calls thisBook.addVerseSegments exactly once, with V
\* and the filtered text, except that it makes no call when the filtered text is
\* empty and V is '0'; importGBFVerseLine calls it exactly once for every verse,
\* an empty filtered text included.  The book is changed in no other way: the
\* lines it had stay as they were, and it is left as it was when the filter does
\* not return.
C29_OneCallPerVerse ==
    [][(/\ shape = "import"
        /\ call \in { "importOSISVerseLine", "importGBFVerseLine" }
        /\ result = NoResult)
          => IF FilteredVerse.err # "none"
                THEN thisBook' = thisBook /\ result'.err = FilteredVerse.err
             ELSE /\ result'.err = "none"
                  /\ thisBook' =
                        IF call = "importOSISVerseLine" /\ FilteredVerse.line = <<>> /\ argV = <<"0">>
                           THEN thisBook
                           ELSE Append(thisBook, VerseCall(FilteredVerse))]_vars

\* importOSISVerseLine has returned from '</verse>' with V = '0': the filtered
\* text is empty and the book has its chapter line only
C29_Witness ==
    /\ ImportEnded("importOSISVerseLine")
    /\ inputLine = <<"<","/","v","e","r","s","e",">">>
    /\ argV = <<"0">>
    /\ result.err = "none"
    /\ thisBook = AddLine(<<>>, "c", <<"1">>)

-----------------------------------------------------------------------------
(* Properties of USFMMarkers (SpecMarkers) *)

\* C30: for every catalog loaded and every valid marker m, getStandardMarker
\* gives for its own result that result again, getRawMarker gives the same for
\* the standard form of m as for m, and for a numberable marker m of the
\* catalog the forms m1, m2 and m3 are valid and have m as their raw marker, so
\* isParagraphMarker and isCharacterMarker answer for them as they do for m.
C30_MarkerFormsAgree ==
    /\ usfm.pc = "queried"
          => /\ getStandardMarker(usfm.dicts, usfm.standard) = usfm.standard
             /\ getRawMarker(usfm.dicts, usfm.standard) = usfm.raw
    /\ usfm.pc \in { "loaded", "queried" }
          => \A i \in 1..Len(usfm.catalog) :
                usfm.catalog[i].numberableFlag
                   => \A x \in Suffixes :
                         LET m == usfm.catalog[i].marker
                         IN  /\ isValidMarker(usfm.dicts, m \o x)
                             /\ getRawMarker(usfm.dicts, m \o x) = m
                             /\ isParagraphMarker(usfm.dicts, m \o x)
                                   = isParagraphMarker(usfm.dicts, m)
                             /\ isCharacterMarker(usfm.dicts, m \o x)
                                   = isCharacterMarker(usfm.dicts, m)

====
